---- MODULE Spec2Model ----
(***************************************************************************)
(* Word cloud generator: the frequency aggregator (processPhrases) and the *)
(* spiral layout engine (generateWordCloudBlob) of the two copies of       *)
(* utils/wordCloudGenerator: the phrase variant (src/App.tsx 662-846) and  *)
(* the token variant (src/App.tsx 847-1049).                               *)
(*                                                                         *)
(* Representation.                                                         *)
(*  - A JavaScript string is a sequence of one-character strings.          *)
(*  - A length in pixels (x, y, width, height) is an integer number of     *)
(*    1/Milli pixels; half widths are avoided by comparing doubled values. *)
(*  - A font size (word.size) is an integer number of pixels, or NaN.      *)
(*  - A count is a JS value [t, v, src]: the number v, or the string made  *)
(*    of the source text of the inherited property src followed by v       *)
(*    characters "1" (what `inherited + 1` evaluates to).                  *)
(***************************************************************************)
EXTENDS Integers, Sequences, FiniteSets, TLC

(***************************************************************************)
(* Bounds of the model.                                                    *)
(***************************************************************************)
\* longest entry list drawn from EntryPool (phrase variant)
MaxEntries == 3
\* most words of a text drawn from TokenPool (token variant)
MaxTokens == 2
\* the bulk inputs hold up to RetentionCap + BulkOver distinct terms
BulkOver == 1
\* number of seeds of the pseudo-random colour source
NumSeeds == 2
\* most events of the Google Sheets client in one behaviour: saveEntry
\* calls, interval callbacks and rows added to the sheet, taken together
MaxEvents == 4

(***************************************************************************)
(* State.                                                                  *)
(*  variant    which copy of utils/wordCloudGenerator is loaded: "phrase"  *)
(*             (generateWordCloudBlob(entries: string[]), with             *)
(*             constants.ts) or "token" (generateWordCloudBlob(text:       *)
(*             string), with the constants of src/unnamed/part_001)        *)
(*  segmenter  Intl.Segmenter is available and does not throw              *)
(*  entries    the argument of the calls, phrase variant                   *)
(*  text       the argument of the calls, token variant                    *)
(*  sortOrder  the order this engine's sort leaves the entries of the      *)
(*             frequency map in                                            *)
(*  call[r]    the generateWordCloudBlob call r                            *)
(*  page       the state of LiveDisplayPage that shows the image; entries  *)
(*             (phrase copy) and text (allText, token copy) are its        *)
(*             snapshot                                                    *)
(*  client     the Google Sheets client module (localEntries, the           *)
(*             listeners of InMemoryEmitter), the backend it talks to and  *)
(*             one subscription made with subscribeToNewEntries            *)
(*  form       the state of InputPage                                      *)
(***************************************************************************)
VARIABLES variant, segmenter, entries, text, sortOrder, call, page,
          client, form

vars ==
  <<variant, segmenter, entries, text, sortOrder, call, page, client, form>>

Phrase == variant = "phrase"

(***************************************************************************)
(* CANVAS_CONFIG and COLORS of the two constants modules.                  *)
(***************************************************************************)
PhraseCanvasWidth == 3200
PhraseCanvasHeight == 1800
PhraseColors ==
  <<"#007947", "#F40000", "#005F37", "#D00000", "#004628", "#B30000">>
TokenCanvasWidth == 2500
TokenCanvasHeight == 1500
TokenColors == <<"#007947", "#F40000", "#005F37", "#D00000">>

CanvasWidth == IF Phrase THEN PhraseCanvasWidth ELSE TokenCanvasWidth
CanvasHeight == IF Phrase THEN PhraseCanvasHeight ELSE TokenCanvasHeight
COLORS == IF Phrase THEN PhraseColors ELSE TokenColors

(***************************************************************************)
(* Literals of the two generator modules.                                  *)
(***************************************************************************)
PhraseRetentionCap == 120
TokenRetentionCap == 100
PhrasePadding == 15
TokenPadding == 4
PhraseMaxFontSize == 550
PhraseMinFontSize == 80
TokenMaxFontSize == 100
TokenMinFontSize == 16
PhraseRadiusStep == 20
TokenRadiusStep == 6
PhraseMaxIterations == 3000
TokenMaxIterations == 1500
\* canvas.width * 0.95, as a percentage (phrase variant only)
GuardPercent == 95
\* height = word.size * 1.1 and word.size * 0.85, in 1/1000
PhraseHeightPerMille == 1100
TokenHeightPerMille == 850
\* font size of a fresh 2D context: "10px sans-serif"
DefaultFontPx == 10

RetentionCap == IF Phrase THEN PhraseRetentionCap ELSE TokenRetentionCap
Padding == IF Phrase THEN PhrasePadding ELSE TokenPadding
MaxFontSize == IF Phrase THEN PhraseMaxFontSize ELSE TokenMaxFontSize
MinFontSize == IF Phrase THEN PhraseMinFontSize ELSE TokenMinFontSize
RadiusStep == IF Phrase THEN PhraseRadiusStep ELSE TokenRadiusStep
MaxIterations == IF Phrase THEN PhraseMaxIterations ELSE TokenMaxIterations
HeightPerMille == IF Phrase THEN PhraseHeightPerMille ELSE TokenHeightPerMille

(***************************************************************************)
(* Numbers.                                                                *)
(***************************************************************************)
Milli == 1000
\* the JS value NaN, where a font size or a height is expected
NaN == -1
\* advance width of one character, in 1/Milli em (ctx.measureText)
CharAdvance == 600

\* Body(value), with value evaluated once
Bind(value, Body(_)) == CHOOSE result \in {Body(x) : x \in {value}} : TRUE

Num(n) == [t |-> "number", v |-> n, src |-> <<>>]
Str(k, key) == [t |-> "string", v |-> k, src |-> key]
Undefined == [t |-> "undefined", v |-> 0, src |-> <<>>]
Inherited(key) == [t |-> "object", v |-> 0, src |-> key]

IsNum(c) == c.t = "number"

(***************************************************************************)
(* Strings.                                                                *)
(***************************************************************************)
WhiteSpace == {" ", "\t", "\n", "\r"}
Digits == <<"0", "1", "2", "3", "4", "5", "6", "7", "8", "9">>
UpperCase ==
  <<"A", "B", "C", "D", "E", "F", "G", "H", "I", "J", "K", "L", "M",
    "N", "O", "P", "Q", "R", "S", "T", "U", "V", "W", "X", "Y", "Z">>
LowerCase ==
  <<"a", "b", "c", "d", "e", "f", "g", "h", "i", "j", "k", "l", "m",
    "n", "o", "p", "q", "r", "s", "t", "u", "v", "w", "x", "y", "z">>

IsDigit(c) == \E d \in 1..10 : Digits[d] = c
IsLetter(c) == \E k \in 1..26 : UpperCase[k] = c \/ LowerCase[k] = c

RECURSIVE trimStart(_)
trimStart(s) ==
  IF s # <<>> /\ Head(s) \in WhiteSpace THEN trimStart(Tail(s)) ELSE s

RECURSIVE trimEnd(_)
trimEnd(s) ==
  IF s # <<>> /\ s[Len(s)] \in WhiteSpace
    THEN trimEnd(SubSeq(s, 1, Len(s) - 1))
    ELSE s

\* String.prototype.trim
trim(s) == trimEnd(trimStart(s))

RECURSIVE Repeat(_, _)
Repeat(s, n) == IF n = 0 THEN <<>> ELSE s \o Repeat(s, n - 1)

RECURSIVE DecimalString(_)
DecimalString(n) ==
  IF n < 10 THEN <<Digits[n + 1]>>
  ELSE DecimalString(n \div 10) \o <<Digits[(n % 10) + 1]>>

DigitValue(c) == CHOOSE d \in 0..9 : Digits[d + 1] = c

RECURSIVE DecimalValue(_)
DecimalValue(s) ==
  IF s = <<>> THEN 0
  ELSE 10 * DecimalValue(SubSeq(s, 1, Len(s) - 1)) + DigitValue(s[Len(s)])

\* an "array index" property name: the canonical decimal string of an
\* integer (strings of more than 9 digits do not occur in the inputs)
IsArrayIndex(key) ==
  /\ Len(key) \in 1..9
  /\ \A i \in 1..Len(key) : IsDigit(key[i])
  /\ (Len(key) > 1 => key[1] # "0")

(***************************************************************************)
(* Entry texts.                                                            *)
(***************************************************************************)
Empty == <<>>
Blank == <<" ", " ">>
Hi == <<"h", "i">>
HiPadded == <<" ", "h", "i", "\n">>
HiCaps == <<"H", "i">>
HSpaceI == <<"h", " ", "i">>
Hello == <<"h", "e", "l", "l", "o", " ", "w", "o", "r", "l", "d", "!">>
HelloCaps == <<"H", "e", "l", "l", "o", " ", "W", "o", "r", "l", "d", "!">>
Sentence == Repeat(<<"l", "o", "n", "g", " ">>, 13) \o <<"w", "o", "r", "d", "s">>
Seven == <<"7">>
Ten == <<"1", "0">>
ConstructorName == <<"c", "o", "n", "s", "t", "r", "u", "c", "t", "o", "r">>
ToStringName == <<"t", "o", "S", "t", "r", "i", "n", "g">>
ProtoName == <<"_", "_", "p", "r", "o", "t", "o", "_", "_">>

The == <<"t", "h", "e">>
LetterA == <<"a">>
Dont == <<"d", "o", "n", "'", "t">>
XRay == <<"x", "-", "r", "a", "y">>
\* one word of 44 letters
LongWord == Repeat(<<"l", "o", "n", "g">>, 11)

\* names a plain object inherits from Object.prototype
ObjectPrototypeKeys ==
  { ConstructorName, ToStringName, ProtoName,
    <<"v", "a", "l", "u", "e", "O", "f">>,
    <<"h", "a", "s", "O", "w", "n", "P", "r", "o", "p", "e", "r", "t", "y">>,
    <<"i", "s", "P", "r", "o", "t", "o", "t", "y", "p", "e", "O", "f">>,
    <<"t", "o", "L", "o", "c", "a", "l", "e", "S", "t", "r", "i", "n", "g">>,
    <<"p", "r", "o", "p", "e", "r", "t", "y", "I", "s", "E", "n", "u", "m", "e", "r", "a", "b", "l", "e">> }

(***************************************************************************)
(* processPhrases: the frequency map.                                      *)
(* frequencyMap is the sequence of the own properties [text, count] of     *)
(* the object, in creation order.                                          *)
(***************************************************************************)
HasOwn(frequencyMap, key) ==
  \E i \in 1..Len(frequencyMap) : frequencyMap[i].text = key

OwnIndex(frequencyMap, key) ==
  CHOOSE i \in 1..Len(frequencyMap) : frequencyMap[i].text = key

\* frequencyMap[key]: own property, else the inherited one, else undefined
GetProperty(frequencyMap, key) ==
  IF key # ProtoName /\ HasOwn(frequencyMap, key)
    THEN frequencyMap[OwnIndex(frequencyMap, key)].count
  ELSE IF key \in ObjectPrototypeKeys THEN Inherited(key)
  ELSE Undefined

\* (value || 0) + 1
OrZeroPlusOne(value) ==
  CASE value.t = "undefined" -> Num(1)
    [] value.t = "number" -> Num(value.v + 1)
    [] value.t = "string" -> Str(value.v + 1, value.src)
    [] value.t = "object" -> Str(1, value.src)

\* frequencyMap[key] = value; the __proto__ setter ignores a primitive
SetProperty(frequencyMap, key, value) ==
  IF key = ProtoName THEN frequencyMap
  ELSE IF HasOwn(frequencyMap, key)
    THEN [frequencyMap EXCEPT ![OwnIndex(frequencyMap, key)].count = value]
  ELSE Append(frequencyMap, [text |-> key, count |-> value])

\* (variant of CountEntry without the test cleanEntry.length > 0)
CountEntryUnguarded(frequencyMap, entry) ==
  Bind(trim(entry), LAMBDA cleanEntry :
    Bind(OrZeroPlusOne(GetProperty(frequencyMap, cleanEntry)),
         LAMBDA value : SetProperty(frequencyMap, cleanEntry, value)))

\* the body of entries.forEach
CountEntry(frequencyMap, entry) ==
  Bind(trim(entry), LAMBDA cleanEntry :
    IF Len(cleanEntry) > 0
      THEN Bind(OrZeroPlusOne(GetProperty(frequencyMap, cleanEntry)),
                LAMBDA value : SetProperty(frequencyMap, cleanEntry, value))
      ELSE frequencyMap)

\* entries.forEach over entryList[lo..hi], in order
RECURSIVE CountEntries(_, _, _, _)
CountEntries(frequencyMap, entryList, lo, hi) ==
  IF lo > hi THEN frequencyMap
  ELSE IF lo = hi THEN CountEntry(frequencyMap, entryList[lo])
  ELSE LET mid == (lo + hi) \div 2
       IN Bind(CountEntries(frequencyMap, entryList, lo, mid),
               LAMBDA firstHalf :
                 CountEntries(firstHalf, entryList, mid + 1, hi))

FrequencyMap(entryList) == CountEntries(<<>>, entryList, 1, Len(entryList))

(***************************************************************************)
(* Object.entries: array-index keys in ascending numeric order, then the   *)
(* other keys in creation order.                                           *)
(***************************************************************************)
HasIndexKey(e) == IsArrayIndex(e.text)
HasStringKey(e) == ~IsArrayIndex(e.text)

RECURSIVE InsertByIndex(_, _)
InsertByIndex(sorted, e) ==
  IF sorted = <<>> THEN <<e>>
  ELSE IF DecimalValue(e.text) < DecimalValue(Head(sorted).text)
    THEN <<e>> \o sorted
  ELSE <<Head(sorted)>> \o InsertByIndex(Tail(sorted), e)

RECURSIVE SortByIndex(_, _)
SortByIndex(s, i) ==
  IF i = 0 THEN <<>> ELSE InsertByIndex(SortByIndex(s, i - 1), s[i])

ObjectEntries(frequencyMap) ==
  Bind(frequencyMap, LAMBDA map :
    Bind(SelectSeq(map, HasIndexKey), LAMBDA indexKeys :
      SortByIndex(indexKeys, Len(indexKeys)) \o SelectSeq(map, HasStringKey)))

(***************************************************************************)
(* Array.prototype.sort with (a, b) => b.count - a.count.                  *)
(***************************************************************************)
\* the comparator; a NaN result counts as +0
SortCompare(a, b) ==
  IF IsNum(a.count) /\ IsNum(b.count)
    THEN (IF b.count.v < a.count.v THEN -1
          ELSE IF b.count.v > a.count.v THEN 1 ELSE 0)
    ELSE 0

\* the comparator is consistent for the array (a strict weak order)
ConsistentComparator(arr) ==
  \/ \A i \in 1..Len(arr) : IsNum(arr[i].count)
  \/ \A i, j \in 1..Len(arr) : SortCompare(arr[i], arr[j]) = 0

\* The stable order: index i comes after the indices that compare before
\* it and after the earlier indices that compare equal to it.
StableRank(arr, i) ==
  1 + Cardinality({ j \in 1..Len(arr) :
                      \/ SortCompare(arr[j], arr[i]) < 0
                      \/ SortCompare(arr[j], arr[i]) = 0 /\ j < i })

StableOrder(arr) ==
  [k \in 1..Len(arr) |-> CHOOSE i \in 1..Len(arr) : StableRank(arr, i) = k]

AllOrders(n) ==
  { p \in [1..n -> 1..n] : \A i, j \in 1..n : p[i] = p[j] => i = j }

\* The orders sort may leave the array in: the stable order when the
\* comparator is consistent, and an implementation-defined one otherwise.
SortOrders(arr) ==
  IF ConsistentComparator(arr)
    THEN {StableOrder(arr)}
    ELSE AllOrders(Len(arr))

\* .slice(0, cap)
slice(arr, cap) == SubSeq(arr, 1, IF Len(arr) < cap THEN Len(arr) ELSE cap)

(***************************************************************************)
(* Math.random: a pseudo-random stream, fixed by its seed.                 *)
(* RandomDraw(seed, i) / RandomRange is the i-th number drawn.             *)
(***************************************************************************)
RandomRange == 16
RandomDraw(seed, i) == (5 * seed + 7 * i + 3) % RandomRange

\* COLORS[Math.floor(Math.random() * COLORS.length)]
PickColor(seed, i) ==
  COLORS[((RandomDraw(seed, i) * Len(COLORS)) \div RandomRange) + 1]

(***************************************************************************)
(* Object.entries(frequencyMap).map(...).sort(...).slice(0, cap), for the  *)
(* sort order `order` of the engine and the random stream `seed`.          *)
(***************************************************************************)
WordsBeforeSort(frequencyMap, seed) ==
  Bind(ObjectEntries(frequencyMap), LAMBDA pairs :
    [i \in 1..Len(pairs) |->
       [text |-> pairs[i].text, count |-> pairs[i].count,
        size |-> 0, color |-> PickColor(seed, i)]])

\* (variant of SortedWords whose order depends on the random draws)
SortedWordsShuffled(frequencyMap, order, seed) ==
  Bind(WordsBeforeSort(frequencyMap, seed), LAMBDA mapped :
    [i \in 1..Len(mapped) |->
       mapped[IF seed % 2 = 1 THEN order[Len(mapped) + 1 - i] ELSE order[i]]])

SortedWords(frequencyMap, order, seed) ==
  Bind(WordsBeforeSort(frequencyMap, seed), LAMBDA mapped :
    [i \in 1..Len(mapped) |-> mapped[order[i]]])

RankedWords(frequencyMap, order, seed) ==
  Bind(SortedWords(frequencyMap, order, seed), LAMBDA sorted :
    slice(sorted, RetentionCap))

\* the terms .slice(0, cap) leaves out
DroppedWords(frequencyMap, order, seed) ==
  Bind(SortedWords(frequencyMap, order, seed), LAMBDA sorted :
    SubSeq(sorted, RetentionCap + 1, Len(sorted)))

processPhrases(entryList, order, seed) ==
  RankedWords(FrequencyMap(entryList), order, seed)

(***************************************************************************)
(* processText: tokenizing.                                                *)
(***************************************************************************)
STOP_WORDS ==
  {
    <<"a">>, <<"a", "b", "o", "u", "t">>, <<"a", "b", "o", "v", "e">>,
    <<"a", "f", "t", "e", "r">>, <<"a", "g", "a", "i", "n">>,
    <<"a", "g", "a", "i", "n", "s", "t">>, <<"a", "l", "l">>, <<"a", "m">>,
    <<"a", "n">>, <<"a", "n", "d">>, <<"a", "n", "y">>, <<"a", "r", "e">>,
    <<"a", "r", "e", "n", "'", "t">>, <<"a", "s">>, <<"a", "t">>,
    <<"b", "e">>, <<"b", "e", "c", "a", "u", "s", "e">>,
    <<"b", "e", "e", "n">>, <<"b", "e", "f", "o", "r", "e">>,
    <<"b", "e", "i", "n", "g">>, <<"b", "e", "l", "o", "w">>,
    <<"b", "e", "t", "w", "e", "e", "n">>, <<"b", "o", "t", "h">>,
    <<"b", "u", "t">>, <<"b", "y">>, <<"c", "a", "n">>,
    <<"c", "a", "n", "n", "o", "t">>, <<"c", "o", "u", "l", "d">>,
    <<"c", "o", "u", "l", "d", "n", "'", "t">>, <<"d", "i", "d">>,
    <<"d", "i", "d", "n", "'", "t">>, <<"d", "o">>, <<"d", "o", "e", "s">>,
    <<"d", "o", "e", "s", "n", "'", "t">>, <<"d", "o", "i", "n", "g">>,
    <<"d", "o", "n", "'", "t">>, <<"d", "o", "w", "n">>,
    <<"d", "u", "r", "i", "n", "g">>, <<"e", "a", "c", "h">>,
    <<"f", "e", "w">>, <<"f", "o", "r">>, <<"f", "r", "o", "m">>,
    <<"f", "u", "r", "t", "h", "e", "r">>, <<"h", "a", "d">>,
    <<"h", "a", "d", "n", "'", "t">>, <<"h", "a", "s">>,
    <<"h", "a", "s", "n", "'", "t">>, <<"h", "a", "v", "e">>,
    <<"h", "a", "v", "e", "n", "'", "t">>, <<"h", "a", "v", "i", "n", "g">>,
    <<"h", "e">>, <<"h", "e", "'", "d">>, <<"h", "e", "'", "l", "l">>,
    <<"h", "e", "'", "s">>, <<"h", "e", "r">>, <<"h", "e", "r", "e">>,
    <<"h", "e", "r", "e", "'", "s">>, <<"h", "e", "r", "s">>,
    <<"h", "e", "r", "s", "e", "l", "f">>, <<"h", "i", "m">>,
    <<"h", "i", "m", "s", "e", "l", "f">>, <<"h", "i", "s">>,
    <<"h", "o", "w">>, <<"h", "o", "w", "'", "s">>, <<"i">>,
    <<"i", "'", "d">>, <<"i", "'", "l", "l">>, <<"i", "'", "m">>,
    <<"i", "'", "v", "e">>, <<"i", "f">>, <<"i", "n">>,
    <<"i", "n", "t", "o">>, <<"i", "s">>, <<"i", "s", "n", "'", "t">>,
    <<"i", "t">>, <<"i", "t", "'", "s">>, <<"i", "t", "s">>,
    <<"i", "t", "s", "e", "l", "f">>, <<"l", "e", "t", "'", "s">>,
    <<"m", "e">>, <<"m", "o", "r", "e">>, <<"m", "o", "s", "t">>,
    <<"m", "u", "s", "t", "n", "'", "t">>, <<"m", "y">>,
    <<"m", "y", "s", "e", "l", "f">>, <<"n", "o">>, <<"n", "o", "r">>,
    <<"n", "o", "t">>, <<"o", "f">>, <<"o", "f", "f">>, <<"o", "n">>,
    <<"o", "n", "c", "e">>, <<"o", "n", "l", "y">>, <<"o", "r">>,
    <<"o", "t", "h", "e", "r">>, <<"o", "u", "g", "h", "t">>,
    <<"o", "u", "r">>, <<"o", "u", "r", "s">>,
    <<"o", "u", "r", "s", "e", "l", "v", "e", "s">>, <<"o", "u", "t">>,
    <<"o", "v", "e", "r">>, <<"o", "w", "n">>, <<"s", "a", "m", "e">>,
    <<"s", "h", "a", "n", "'", "t">>, <<"s", "h", "e">>,
    <<"s", "h", "e", "'", "d">>, <<"s", "h", "e", "'", "l", "l">>,
    <<"s", "h", "e", "'", "s">>, <<"s", "h", "o", "u", "l", "d">>,
    <<"s", "h", "o", "u", "l", "d", "n", "'", "t">>, <<"s", "o">>,
    <<"s", "o", "m", "e">>, <<"s", "u", "c", "h">>, <<"t", "h", "a", "n">>,
    <<"t", "h", "a", "t">>, <<"t", "h", "a", "t", "'", "s">>,
    <<"t", "h", "e">>, <<"t", "h", "e", "i", "r">>,
    <<"t", "h", "e", "i", "r", "s">>, <<"t", "h", "e", "m">>,
    <<"t", "h", "e", "m", "s", "e", "l", "v", "e", "s">>,
    <<"t", "h", "e", "n">>, <<"t", "h", "e", "r", "e">>,
    <<"t", "h", "e", "r", "e", "'", "s">>, <<"t", "h", "e", "s", "e">>,
    <<"t", "h", "e", "y">>, <<"t", "h", "e", "y", "'", "d">>,
    <<"t", "h", "e", "y", "'", "l", "l">>,
    <<"t", "h", "e", "y", "'", "r", "e">>,
    <<"t", "h", "e", "y", "'", "v", "e">>, <<"t", "h", "i", "s">>,
    <<"t", "h", "o", "s", "e">>, <<"t", "h", "r", "o", "u", "g", "h">>,
    <<"t", "o">>, <<"t", "o", "o">>, <<"u", "n", "d", "e", "r">>,
    <<"u", "n", "t", "i", "l">>, <<"u", "p">>, <<"v", "e", "r", "y">>,
    <<"w", "a", "s">>, <<"w", "a", "s", "n", "'", "t">>, <<"w", "e">>,
    <<"w", "e", "'", "d">>, <<"w", "e", "'", "l", "l">>,
    <<"w", "e", "'", "r", "e">>, <<"w", "e", "'", "v", "e">>,
    <<"w", "e", "r", "e">>, <<"w", "e", "r", "e", "n", "'", "t">>,
    <<"w", "h", "a", "t">>, <<"w", "h", "a", "t", "'", "s">>,
    <<"w", "h", "e", "n">>, <<"w", "h", "e", "n", "'", "s">>,
    <<"w", "h", "e", "r", "e">>, <<"w", "h", "e", "r", "e", "'", "s">>,
    <<"w", "h", "i", "c", "h">>, <<"w", "h", "i", "l", "e">>,
    <<"w", "h", "o">>, <<"w", "h", "o", "'", "s">>, <<"w", "h", "o", "m">>,
    <<"w", "h", "y">>, <<"w", "h", "y", "'", "s">>, <<"w", "i", "t", "h">>,
    <<"w", "o", "n", "'", "t">>, <<"w", "o", "u", "l", "d">>,
    <<"w", "o", "u", "l", "d", "n", "'", "t">>, <<"y", "o", "u">>,
    <<"y", "o", "u", "'", "d">>, <<"y", "o", "u", "'", "l", "l">>,
    <<"y", "o", "u", "'", "r", "e">>, <<"y", "o", "u", "'", "v", "e">>,
    <<"y", "o", "u", "r">>, <<"y", "o", "u", "r", "s">>,
    <<"y", "o", "u", "r", "s", "e", "l", "f">>,
    <<"y", "o", "u", "r", "s", "e", "l", "v", "e", "s">>
  }

\* String.prototype.toLowerCase
toLowerCase(s) ==
  [i \in 1..Len(s) |->
     IF \E k \in 1..26 : UpperCase[k] = s[i]
       THEN LowerCase[CHOOSE k \in 1..26 : UpperCase[k] = s[i]]
       ELSE s[i]]

\* The maximal runs of the positions of s that satisfy In, in order.
RunStarts(s, In(_)) ==
  { i \in 1..Len(s) : In(i) /\ (i = 1 \/ ~In(i - 1)) }

RunEnd(s, In(_), start) ==
  CHOOSE j \in start..Len(s) :
    /\ \A k \in start..j : In(k)
    /\ (j = Len(s) \/ ~In(j + 1))

MaximalRuns(s, In(_)) ==
  Bind(RunStarts(s, In), LAMBDA starts :
    [k \in 1..Cardinality(starts) |->
       Bind(CHOOSE i \in starts :
              Cardinality({j \in starts : j < i}) = k - 1,
            LAMBDA start : SubSeq(s, start, RunEnd(s, In, start)))])

IsAlphaNum(c) == IsLetter(c) \/ IsDigit(c)

\* new Intl.Segmenter('th', {granularity: 'word'}).segment(s), the segments
\* with isWordLike: runs of letters and digits; an apostrophe between two
\* letters does not break a word.
WordLikeSegments(s) ==
  LET InWord(i) ==
        \/ IsAlphaNum(s[i])
        \/ /\ s[i] = "'"
           /\ 1 < i /\ i < Len(s)
           /\ IsLetter(s[i - 1]) /\ IsLetter(s[i + 1])
  IN MaximalRuns(s, InWord)

\* s.replace(/[^\p{L}\p{N}\s]/gu, '')
IsKept(c) == IsAlphaNum(c) \/ c \in WhiteSpace
RemoveSymbols(s) == SelectSeq(s, IsKept)

\* cleanText.split(/\s+/): the pieces between the runs of white space,
\* with an empty piece before a leading and after a trailing run
SplitOnWhiteSpace(s) ==
  LET NotSpace(i) == s[i] \notin WhiteSpace
  IN (IF s = <<>> \/ s[1] \in WhiteSpace THEN <<Empty>> ELSE <<>>)
     \o MaximalRuns(s, NotSpace)
     \o (IF s # <<>> /\ s[Len(s)] \in WhiteSpace THEN <<Empty>> ELSE <<>>)

\* the array `words` of processText
Tokenize(s) ==
  Bind(toLowerCase(s), LAMBDA lower :
    IF segmenter THEN WordLikeSegments(lower)
    ELSE Bind(RemoveSymbols(lower), LAMBDA cleanText :
           SplitOnWhiteSpace(cleanText)))

\* (variant of CountWord without the test of length and STOP_WORDS)
CountWordUnfiltered(frequencyMap, word) ==
  Bind(OrZeroPlusOne(GetProperty(frequencyMap, word)),
       LAMBDA value : SetProperty(frequencyMap, word, value))

\* the body of words.forEach of processText
CountWord(frequencyMap, word) ==
  IF Len(word) > 1 /\ word \notin STOP_WORDS
    THEN Bind(OrZeroPlusOne(GetProperty(frequencyMap, word)),
              LAMBDA value : SetProperty(frequencyMap, word, value))
    ELSE frequencyMap

RECURSIVE CountWords(_, _, _, _)
CountWords(frequencyMap, wordList, lo, hi) ==
  IF lo > hi THEN frequencyMap
  ELSE IF lo = hi THEN CountWord(frequencyMap, wordList[lo])
  ELSE LET mid == (lo + hi) \div 2
       IN Bind(CountWords(frequencyMap, wordList, lo, mid),
               LAMBDA firstHalf :
                 CountWords(firstHalf, wordList, mid + 1, hi))

TokenFrequencyMap(s) ==
  Bind(Tokenize(s), LAMBDA wordList :
    CountWords(<<>>, wordList, 1, Len(wordList)))

processText(s, order, seed) ==
  RankedWords(TokenFrequencyMap(s), order, seed)

(***************************************************************************)
(* NaN-aware arithmetic on font sizes and heights.                         *)
(***************************************************************************)
IsNaN(v) == v = NaN

\* a < b and a > b of JavaScript: false when an operand is NaN
Less(a, b) == ~IsNaN(a) /\ ~IsNaN(b) /\ a < b
Greater(a, b) == ~IsNaN(a) /\ ~IsNaN(b) /\ a > b

\* Math.floor(n / d) for d # 0
FloorDiv(n, d) == IF d > 0 THEN n \div d ELSE (0 - n) \div (0 - d)

(***************************************************************************)
(* Math.cos and Math.sin of k * angleStep (angleStep = 0.5), in 1/Milli.   *)
(***************************************************************************)
CosTab ==
  <<
     1000, 878, 540, 71, -416, -801, -990, -936, -654, -211, 284, 709, 960, 977, 754,
     347, -146, -602, -911, -997, -839, -476, 4, 483, 844, 998, 907, 595, 137, -355,
     -760, -978, -958, -702, -275, 219, 660, 940, 989, 796, 408, -80, -548, -882, -1000,
     -873, -533, -62, 424, 806, 991, 933, 647, 202, -292, -715, -963, -975, -748, -338,
     154, 609, 915, 996, 834, 468, -13, -491, -849, -998, -904, -588, -128, 363, 765,
     980, 955, 696, 267, -228, -667, -943, -987, -790, -400, 88, 555, 886, 1000, 869,
     525, 53, -432, -812, -992, -930, -640, -193, 301, 721, 965, 973, 742, 330, -163,
     -616, -918, -996, -829, -460, 22, 499, 853, 999, 900, 581, 119, -371, -771, -982,
     -952, -690, -258, 237, 674, 945, 986, 785, 392, -97, -562, -890, -1000, -865, -518,
     -44, 440, 817, 993, 927, 633, 185, -309, -727, -967, -971, -736, -322, 172, 623,
     922, 995, 824, 452, -31, -506, -858, -999, -896, -573, -110, 380, 777, 984, 950,
     683, 250, -245, -680, -948, -984, -779, -384, 106, 570, 894, 999, 860, 510, 35,
     -448, -822, -994, -923, -626, -176, 317, 733, 969, 968, 730, 313, -180, -630, -925,
     -994, -819, -444, 40, 514, 862, 1000, 892, 566, 102, -388, -782, -985, -947, -677,
     -241, 254, 686, 951, 983, 774, 376, -115, -577, -898, -999, -856, -503, -27, 456,
     827, 995, 920, 620, 167, -326, -739, -972, -966, -724, -305, 189, 637, 928, 993,
     814, 436, -49, -522, -867, -1000, -888, -559, -93, 396, 788, 987, 944, 670, 232,
     -262, -693, -954, -981, -768, -367, 124, 584, 902, 999, 851, 495, 18, -464, -832,
     -996, -917, -613, -159, 334, 745, 974, 964, 718, 296, -198, -644, -932, -992, -809,
     -428, 58, 529, 871, 1000, 884, 551, 84, -404, -793, -988, -941, -664, -224, 271,
     699, 956, 979, 763, 359, -132, -591, -906, -998, -846, -487, -9, 472, 837, 997,
     913, 606, 150, -342, -751, -976, -961, -712, -288, 206, 650, 935, 991, 804, 420,
     -66, -537, -875, -1000, -880, -544, -75, 412, 798, 989, 938, 657, 215, -279, -706,
     -959, -978, -757, -351, 141, 598, 909, 997, 841, 479, 0, -479, -841, -997, -909,
     -598, -141, 351, 757, 978, 959, 706, 279, -215, -657, -938, -989, -798, -412, 75,
     544, 880, 1000, 875, 537, 66, -420, -804, -991, -935, -650, -206, 288, 712, 961,
     976, 751, 342, -150, -606, -913, -997, -837, -472, 9, 487, 846, 998, 906, 591,
     132, -359, -763, -979, -956, -699, -271, 224, 664, 941, 988, 793, 404, -84, -551
  >>

SinTab ==
  <<
     0, 479, 841, 997, 909, 598, 141, -351, -757, -978, -959, -706, -279, 215, 657,
     938, 989, 798, 412, -75, -544, -880, -1000, -875, -537, -66, 420, 804, 991, 935,
     650, 206, -288, -712, -961, -976, -751, -342, 150, 606, 913, 997, 837, 472, -9,
     -487, -846, -998, -906, -591, -132, 359, 763, 979, 956, 699, 271, -224, -664, -941,
     -988, -793, -404, 84, 551, 884, 1000, 871, 529, 57, -428, -809, -992, -932, -644,
     -198, 296, 718, 964, 974, 745, 334, -159, -613, -917, -996, -832, -464, 18, 495,
     851, 999, 902, 584, 124, -367, -768, -981, -954, -693, -262, 232, 670, 944, 987,
     788, 396, -93, -559, -888, -1000, -867, -522, -49, 436, 814, 993, 928, 637, 189,
     -305, -724, -966, -972, -739, -326, 167, 620, 920, 995, 827, 456, -27, -503, -856,
     -999, -898, -577, -115, 376, 774, 983, 951, 686, 254, -241, -677, -947, -985, -782,
     -388, 102, 566, 892, 1000, 862, 514, 40, -444, -819, -994, -925, -630, -180, 313,
     730, 968, 969, 733, 317, -176, -626, -923, -994, -822, -448, 35, 510, 860, 999,
     894, 570, 106, -384, -779, -984, -948, -680, -245, 250, 683, 950, 984, 777, 380,
     -110, -573, -896, -999, -858, -506, -31, 452, 824, 995, 922, 623, 172, -322, -736,
     -971, -967, -727, -309, 185, 633, 927, 993, 817, 440, -44, -518, -865, -1000, -890,
     -562, -97, 392, 785, 986, 945, 673, 237, -258, -690, -952, -982, -771, -371, 119,
     581, 900, 999, 853, 499, 22, -460, -829, -996, -918, -616, -163, 330, 742, 973,
     965, 721, 301, -193, -640, -930, -992, -812, -432, 53, 525, 869, 1000, 886, 555,
     88, -400, -790, -987, -943, -667, -228, 267, 696, 955, 980, 765, 363, -128, -588,
     -904, -998, -849, -491, -13, 468, 834, 996, 915, 609, 154, -338, -748, -975, -963,
     -715, -292, 202, 647, 933, 991, 806, 424, -62, -533, -873, -1000, -882, -548, -80,
     408, 796, 989, 940, 660, 219, -275, -702, -958, -978, -760, -355, 137, 595, 907,
     998, 844, 483, 4, -476, -839, -997, -911, -602, -145, 347, 754, 977, 960, 709,
     284, -211, -654, -936, -990, -801, -416, 71, 540, 878, 1000, 878, 540, 71, -416,
     -801, -990, -936, -654, -211, 284, 709, 960, 977, 754, 347, -146, -602, -911, -997,
     -839, -476, 4, 483, 844, 998, 907, 595, 137, -355, -760, -978, -958, -702, -275,
     219, 660, 940, 989, 796, 408, -80, -548, -882, -1000, -873, -533, -62, 424, 806,
     991, 933, 647, 202, -292, -715, -963, -975, -748, -338, 154, 609, 915, 996, 834
  >>

Cos(k) == CosTab[k + 1]
Sin(k) == SinTab[k + 1]

(***************************************************************************)
(* intersect(word, otherWord): the boxes, each grown by padding on every   *)
(* side, are not separated along x or along y.  Every term is doubled.     *)
(***************************************************************************)
\* (variant of intersect that leaves the padding out)
intersectUnpadded(word, otherWord) ==
  ~ \/ Less(2 * word.x + word.width, 2 * otherWord.x - otherWord.width)
    \/ Greater(2 * word.x - word.width, 2 * otherWord.x + otherWord.width)
    \/ Less(IF IsNaN(word.height) THEN NaN ELSE 2 * word.y + word.height,
            IF IsNaN(otherWord.height) THEN NaN
            ELSE 2 * otherWord.y - otherWord.height)
    \/ Greater(IF IsNaN(word.height) THEN NaN ELSE 2 * word.y - word.height,
               IF IsNaN(otherWord.height) THEN NaN
               ELSE 2 * otherWord.y + otherWord.height)

intersect(word, otherWord) ==
  LET pad == 2 * Padding * Milli
  IN ~ \/ Less(2 * word.x + word.width + pad,
                2 * otherWord.x - otherWord.width - pad)
       \/ Greater(2 * word.x - word.width - pad,
                  2 * otherWord.x + otherWord.width + pad)
       \/ Less(IF IsNaN(word.height) THEN NaN
               ELSE 2 * word.y + word.height + pad,
               IF IsNaN(otherWord.height) THEN NaN
               ELSE 2 * otherWord.y - otherWord.height - pad)
       \/ Greater(IF IsNaN(word.height) THEN NaN
                  ELSE 2 * word.y - word.height - pad,
                  IF IsNaN(otherWord.height) THEN NaN
                  ELSE 2 * otherWord.y + otherWord.height + pad)

(***************************************************************************)
(* Font size of a word (the first lines of the body of words.forEach).     *)
(***************************************************************************)
\* words[0]?.count || 1
CountOrOne(wordList, i) ==
  IF Len(wordList) = 0 THEN Num(1)
  ELSE IF IsNum(wordList[i].count) /\ wordList[i].count.v = 0 THEN Num(1)
  ELSE wordList[i].count

\* (variant of InterpolatedSize with scale = (maxCount - count) / range)
InterpolatedSizeInverted(count, minCount, maxCount) ==
  IF maxCount = minCount THEN MaxFontSize
  ELSE IF ~(IsNum(count) /\ IsNum(minCount) /\ IsNum(maxCount)) THEN NaN
  ELSE FloorDiv(MinFontSize * (maxCount.v - minCount.v)
                  + (maxCount.v - count.v) * (MaxFontSize - MinFontSize),
                maxCount.v - minCount.v)

\* (variant of InterpolatedSize without the test maxCount === minCount:
\* scale is 0 / 0)
InterpolatedSizeUntested(count, minCount, maxCount) ==
  IF ~(IsNum(count) /\ IsNum(minCount) /\ IsNum(maxCount)) THEN NaN
  ELSE IF maxCount.v = minCount.v THEN NaN
  ELSE FloorDiv(MinFontSize * (maxCount.v - minCount.v)
                  + (count.v - minCount.v) * (MaxFontSize - MinFontSize),
                maxCount.v - minCount.v)

\* Math.floor(minFontSize + scale * (maxFontSize - minFontSize))
InterpolatedSize(count, minCount, maxCount) ==
  IF maxCount = minCount THEN MaxFontSize
  ELSE IF ~(IsNum(count) /\ IsNum(minCount) /\ IsNum(maxCount)) THEN NaN
  ELSE FloorDiv(MinFontSize * (maxCount.v - minCount.v)
                  + (count.v - minCount.v) * (MaxFontSize - MinFontSize),
                maxCount.v - minCount.v)

\* ctx.font = `bold ${size}px ...`: an invalid value leaves the font as it is
SetFont(fontPx, size) == IF IsNaN(size) \/ size < 0 THEN fontPx ELSE size

\* ctx.measureText(text).width at the current font
measureText(str, fontPx) == fontPx * Len(str) * CharAdvance

\* canvas.width * 0.95
GuardWidth == (CanvasWidth * GuardPercent * Milli) \div 100
\* width > canvas.width * 0.95
TooWide(width) == width > GuardWidth

\* Math.floor(word.size * ((canvas.width * 0.95) / width))
ShrunkSize(size, width) ==
  IF IsNaN(size) THEN NaN
  ELSE (size * GuardWidth) \div width

\* word.size * 1.1
HeightOf(size) == IF IsNaN(size) THEN NaN ELSE size * HeightPerMille

(***************************************************************************)
(* The spiral search (the while loop).                                     *)
(***************************************************************************)
CenterX == (CanvasWidth * Milli) \div 2
\* (variant of MaxSide with Math.min for Math.max)
MinSide == IF CanvasWidth < CanvasHeight THEN CanvasWidth ELSE CanvasHeight

CenterY == (CanvasHeight * Milli) \div 2
MaxSide == IF CanvasWidth > CanvasHeight THEN CanvasWidth ELSE CanvasHeight

\* (variant of OutOfBounds that checks the left and right edges only)
OutOfBoundsHorizontal(c) ==
  \/ 2 * c.x - c.width < 0
  \/ 2 * c.x + c.width > 2 * CanvasWidth * Milli

\* 1. Boundary Check
OutOfBounds(c) ==
  \/ 2 * c.x - c.width < 0
  \/ 2 * c.x + c.width > 2 * CanvasWidth * Milli
  \/ Less(IF IsNaN(c.height) THEN NaN ELSE 2 * c.y - c.height, 0)
  \/ Greater(IF IsNaN(c.height) THEN NaN ELSE 2 * c.y + c.height,
             2 * CanvasHeight * Milli)

\* 2. Word Collision Check
Collides(c, placed) == \E i \in 1..Len(placed) : intersect(c, placed[i])

\* candidate position of iteration `iterations`
CandidateAt(candidate, iterations) ==
  LET radius == iterations * RadiusStep
  IN [candidate EXCEPT !.x = CenterX + radius * Cos(iterations),
                       !.y = CenterY + radius * Sin(iterations)]

\* the iteration leaves the loop: by the break of the boundary check
\* ("radius") or by the push and break ("placed"); "" when it goes on
ExitAt(candidate, placed, iterations) ==
  Bind(CandidateAt(candidate, iterations), LAMBDA c :
    IF OutOfBounds(c)
      THEN (IF iterations * RadiusStep > MaxSide THEN "radius" ELSE "")
    ELSE IF Collides(c, placed) THEN ""
    ELSE "placed")

\* The first iteration in lo..hi that leaves the loop, or hi + 1: the
\* iterations are tried in order and none after the first exit.
RECURSIVE FirstExit(_, _, _, _)
FirstExit(candidate, placed, lo, hi) ==
  IF lo > hi THEN hi + 1
  ELSE IF lo = hi
    THEN (IF ExitAt(candidate, placed, lo) # "" THEN lo ELSE hi + 1)
  ELSE LET mid == (lo + hi) \div 2
       IN Bind(FirstExit(candidate, placed, lo, mid), LAMBDA first :
            IF first <= mid THEN first
            ELSE FirstExit(candidate, placed, mid + 1, hi))

\* The while loop.  exit is "placed", "radius" or "cap" (the loop
\* condition); candidate is the candidate object when the loop ends.
SpiralSearch(candidate, placed) ==
  Bind(FirstExit(candidate, placed, 0, MaxIterations - 1), LAMBDA first :
    IF first < MaxIterations
      THEN [exit |-> ExitAt(candidate, placed, first),
            iterations |-> first,
            candidate |-> CandidateAt(candidate, first)]
      ELSE [exit |-> "cap", iterations |-> MaxIterations,
            candidate |-> CandidateAt(candidate, MaxIterations - 1)])

(***************************************************************************)
(* One iteration of words.forEach, for the word at index i.                *)
(***************************************************************************)
LayoutWord(wordList, i, fontPx, placedWords) ==
  LET word == wordList[i]
      maxCount == CountOrOne(wordList, 1)
      minCount == CountOrOne(wordList, Len(wordList))
      rawSize == InterpolatedSize(word.count, minCount, maxCount)
      font1 == SetFont(fontPx, rawSize)
      width1 == measureText(word.text, font1)
      guarded == Phrase /\ TooWide(width1)
      size == IF guarded THEN ShrunkSize(rawSize, width1) ELSE rawSize
      font2 == IF guarded THEN SetFont(font1, size) ELSE font1
      width == IF guarded THEN measureText(word.text, font2) ELSE width1
      candidate == [text |-> word.text, count |-> word.count, size |-> size,
                    color |-> word.color, width |-> width,
                    height |-> HeightOf(size), x |-> CenterX, y |-> CenterY]
  IN Bind(candidate, LAMBDA c : Bind(placedWords, LAMBDA placed :
       Bind(SpiralSearch(c, placed), LAMBDA search :
         [rawSize |-> rawSize, size |-> size, guarded |-> guarded,
          measured |-> width1, measures |-> IF guarded THEN 2 ELSE 1,
          fontPx |-> font2, exit |-> search.exit,
          iterations |-> search.iterations,
          candidate |-> search.candidate])))

(***************************************************************************)
(* Inputs of the phrase variant.                                           *)
(***************************************************************************)
EntryPool == {Blank, Hi, HiPadded, HiCaps, Hello, ConstructorName}

PoolInputs == UNION {[1..n -> EntryPool] : n \in 0..MaxEntries}

ScenarioInputs ==
  { <<Empty>>, <<Empty, Blank, Hi>>, <<Hi, HiCaps, HSpaceI>>,
    <<Hello, HelloCaps>>,
    <<ProtoName>>, <<ProtoName, Hi, ProtoName>>, <<ToStringName, ToStringName>>,
    <<Hi, Ten, Seven>>, <<Sentence>>, <<Sentence, Sentence, Hi>>,
    <<Hi, ConstructorName, Hello, Hello>>,
    <<Hello, Hello, Hi, ConstructorName, HiCaps>>,
    <<Hello, HelloCaps, Sentence, HSpaceI>> }

\* the phrase "w<i>"
BulkPhrase(i) == <<"w">> \o DecimalString(i)

\* n phrases, the last first, then phrases 1..5 again, then phrase 1 again
BulkEntries(n) ==
  [j \in 1..(n + 6) |->
     IF j <= n THEN BulkPhrase(n + 1 - j)
     ELSE IF j <= n + 5 THEN BulkPhrase(j - n)
     ELSE BulkPhrase(1)]

\* n phrases once each, then "constructor" twice
UniformEntries(n) ==
  [j \in 1..(n + 2) |-> IF j <= n THEN BulkPhrase(j) ELSE ConstructorName]

\* more distinct phrases than the cap retains
BulkInputs ==
  { BulkEntries(PhraseRetentionCap + BulkOver),
    UniformEntries(PhraseRetentionCap) }

Inputs == PoolInputs \cup ScenarioInputs \cup BulkInputs

(***************************************************************************)
(* Inputs of the token variant.                                            *)
(***************************************************************************)
TokenPool == {The, LetterA, Hi, HiCaps, Hello, Dont, ConstructorName}

RECURSIVE JoinWords(_)
JoinWords(ws) ==
  IF ws = <<>> THEN <<>>
  ELSE IF Len(ws) = 1 THEN ws[1]
  ELSE ws[1] \o <<" ">> \o JoinWords(Tail(ws))

TokenPoolTexts ==
  { JoinWords(ws) : ws \in UNION {[1..n -> TokenPool] : n \in 0..MaxTokens} }

TokenScenarioTexts ==
  { Blank, HiPadded, XRay, ProtoName, LongWord,
    JoinWords(<<Hi, LongWord, Hi>>),
    JoinWords(<<Hi, Hi, Hello, XRay, Dont>>),
    <<" ">> \o JoinWords(<<Hello, The, Hello, Hi>>) \o <<" ", "\n">>,
    JoinWords(<<Hi, ConstructorName, Hello, Hello>>) }

\* the word "w<i>", i written with three digits
BulkWord(i) ==
  <<"w", Digits[(i \div 100) + 1], Digits[((i \div 10) % 10) + 1],
    Digits[(i % 10) + 1]>>

\* the words of `list(j)`, j in 1..n, separated by single spaces
SpacedText(n, list(_)) ==
  [p \in 1..(5 * n - 1) |->
     IF p % 5 = 0 THEN " " ELSE BulkWord(list((p - 1) \div 5 + 1))[p % 5]]

\* n words, the last first, then words 1..5 again, then word 1 again
BulkText(n) ==
  LET list(j) == IF j <= n THEN n + 1 - j
                 ELSE IF j <= n + 5 THEN j - n ELSE 1
  IN SpacedText(n + 6, list)

\* n words once each
UniformText(n) == LET list(j) == j IN SpacedText(n, list)

\* as many distinct words as the cap retains, and more
TokenBulkTexts ==
  { BulkText(TokenRetentionCap + BulkOver), UniformText(TokenRetentionCap) }

Texts == TokenPoolTexts \cup TokenScenarioTexts \cup TokenBulkTexts

Seeds == 0..(NumSeeds - 1)
Runs == {1, 2}

(***************************************************************************)
(* Initial states.                                                         *)
(***************************************************************************)
\* A call: pc is "idle" (not started), "layout" (in words.forEach, idx the
\* index of the next word), "encoding" (toBlob pending) or "resolved";
\* canvas and ctx tell that the canvas was created and its 2D context
\* obtained; painted lists the fillText calls; result is what the promise
\* resolved to.  dropped (the terms slice left out) and attempts (one
\* record per finished forEach iteration) are history only.
IdleCall ==
  [pc |-> "idle", seed |-> 0, words |-> <<>>, dropped |-> <<>>, idx |-> 0,
   canvas |-> FALSE, ctx |-> FALSE, ctxFont |-> 0, placedWords |-> <<>>,
   painted |-> <<>>, attempts |-> <<>>, result |-> "pending"]

\* The client module when it is loaded, nothing saved and nobody
\* subscribed. backend lists the rows of the sheet; now is the clock
\* Date.now() reads; saves are the saveEntry calls made; lastKnownIds,
\* isPolling and pollInterval are the variables of that name of the one
\* subscribeToNewEntries call, subscribed tells how far that call and its
\* unsubscribe function have come, known is the initial fetchAllTexts of
\* the call and polls the fetchAllTexts calls of interval callbacks that
\* are awaited; existing (the rows there when subscribing) and announced
\* (the calls of onNewEntry) are history only.
IdleClient ==
  [backend |-> <<>>, now |-> 0, localEntries |-> <<>>, listeners |-> <<>>,
   saves |-> <<>>,
   subscribed |-> "no", isPolling |-> FALSE, pollInterval |-> FALSE,
   lastKnownIds |-> {},
   known |-> [pc |-> "none", ok |-> TRUE, data |-> <<>>],
   polls |-> <<>>, ticks |-> 0, existing |-> <<>>, announced |-> <<>>]

\* InputPage at its first render
\* (pending counts the saveEntry calls of handleSubmit not yet back,
\* timers the pending timers that reset status; submitted, the texts given
\* to saveEntry, is history only)
IdleForm == [inputText |-> <<>>, isSubmitting |-> FALSE, status |-> "idle",
             pending |-> 0, timers |-> 0, submitted |-> <<>>]

\* useState(null) of imageUrl, and an object URL of the image generated
\* from a snapshot
NoUrl == <<>>
ObjectUrl(snapshot) == <<snapshot>>

\* LiveDisplayPage after its first render: imageUrl null; timers holds
\* the pending timers of the debounced effect, each with the number
\* setTimeout returned and the snapshot its closure holds; cleanup is the
\* number the cleanup function of the last effect clears (0: the effect
\* returned none); loadInitialData not yet back; entryCount is the state
\* of that name; changes counts the updates of the snapshot; added lists
\* the texts the subscription callback was given; stage[r] tells whether the timer callback that
\* makes call r is not started ("none"), waits for the promise
\* ("running") or is over ("done"), and arg[r] is the snapshot its
\* closure holds.
IdlePage ==
  [imageUrl |-> NoUrl, timers |-> {}, cleanup |-> 0, loaded |-> FALSE,
   entryCount |-> 0, changes |-> 0, added |-> <<>>,
   stage |-> [r \in Runs |-> "none"],
   arg |-> [r \in Runs |-> [entries |-> <<>>, text |-> <<>>]]]

\* the frequencyMap the aggregator builds from the argument of the call
ArgumentFrequencyMap ==
  IF Phrase THEN FrequencyMap(entries) ELSE TokenFrequencyMap(text)

InitInputs(entryLists, texts) ==
  /\ \/ /\ variant = "phrase"
        /\ segmenter = TRUE
        /\ entries \in entryLists
        /\ text = <<>>
     \/ /\ variant = "token"
        /\ segmenter \in BOOLEAN
        /\ entries = <<>>
        /\ text \in texts
        \* the long texts are segmented by Intl.Segmenter only
        /\ text \in TokenBulkTexts => segmenter
  /\ \E arr \in {ObjectEntries(ArgumentFrequencyMap)} :
       sortOrder \in SortOrders(arr)
  /\ call = [r \in Runs |-> IdleCall]
  /\ page = IdlePage
  /\ client = IdleClient
  /\ form = IdleForm

Init == InitInputs(Inputs, Texts)

\* (variant of Generate without the test of ctx: using the missing
\* context throws, so that the promise is rejected)
GenerateUnchecked(r) ==
  /\ call[r].pc = "idle"
  /\ \E seed \in Seeds, hasContext \in BOOLEAN :
     \E words \in {IF Phrase THEN processPhrases(entries, sortOrder, seed)
                             ELSE processText(text, sortOrder, seed)} :
     \E dropped \in {DroppedWords(ArgumentFrequencyMap, sortOrder, seed)} :
          call' = [call EXCEPT ![r] =
            IF Len(words) = 0
              THEN [@ EXCEPT !.pc = "resolved", !.seed = seed,
                             !.result = "null"]
            ELSE IF ~hasContext
              THEN [@ EXCEPT !.pc = "rejected", !.seed = seed,
                             !.words = words, !.dropped = dropped,
                             !.canvas = TRUE, !.result = "error"]
            ELSE [@ EXCEPT !.pc = "layout", !.seed = seed, !.words = words,
                           !.dropped = dropped, !.canvas = TRUE,
                           !.ctx = TRUE, !.ctxFont = DefaultFontPx,
                           !.idx = 1]]
  /\ UNCHANGED <<variant, segmenter, entries, text, sortOrder, page, client,
               form>>

(***************************************************************************)
(* generateWordCloudBlob(entries | text), up to words.forEach.             *)
(***************************************************************************)
Generate(r) ==
  /\ call[r].pc = "idle"
  /\ \E seed \in Seeds, hasContext \in BOOLEAN :
     \E words \in {IF Phrase THEN processPhrases(entries, sortOrder, seed)
                             ELSE processText(text, sortOrder, seed)} :
     \E dropped \in {DroppedWords(ArgumentFrequencyMap, sortOrder, seed)} :
          call' = [call EXCEPT ![r] =
            IF Len(words) = 0
              THEN [@ EXCEPT !.pc = "resolved", !.seed = seed,
                             !.result = "null"]
            ELSE IF ~hasContext
              THEN [@ EXCEPT !.pc = "resolved", !.seed = seed,
                             !.words = words, !.dropped = dropped,
                             !.canvas = TRUE, !.result = "null"]
            ELSE [@ EXCEPT !.pc = "layout", !.seed = seed, !.words = words,
                           !.dropped = dropped, !.canvas = TRUE,
                           !.ctx = TRUE, !.ctxFont = DefaultFontPx,
                           !.idx = 1]]
  /\ UNCHANGED <<variant, segmenter, entries, text, sortOrder, page, client,
               form>>

\* (variant of PlaceWord that backtracks: a skipped word takes the word
\* placed last out of placedWords)
PlaceWordBacktracking(r) ==
  /\ call[r].pc = "layout"
  /\ call[r].idx <= Len(call[r].words)
  /\ \E lw \in {LayoutWord(call[r].words, call[r].idx, call[r].ctxFont,
                             call[r].placedWords)} :
     LET c == call[r]
         isPlaced == lw.exit = "placed"
     IN call' = [call EXCEPT ![r] =
          [@ EXCEPT
             !.words[c.idx].size = lw.size,
             !.ctxFont = lw.fontPx,
             !.idx = c.idx + 1,
             !.placedWords = IF isPlaced THEN Append(@, lw.candidate)
                             ELSE IF Len(@) > 0 THEN SubSeq(@, 1, Len(@) - 1)
                             ELSE @,
             !.painted = IF isPlaced
                           THEN Append(@, [text |-> lw.candidate.text,
                                           x |-> lw.candidate.x,
                                           y |-> lw.candidate.y,
                                           color |-> c.words[c.idx].color,
                                           fontPx |-> lw.fontPx])
                           ELSE @,
             !.attempts = Append(@, [text |-> c.words[c.idx].text,
                                     count |-> c.words[c.idx].count,
                                     rawSize |-> lw.rawSize,
                                     size |-> lw.size,
                                     guarded |-> lw.guarded,
                                     measured |-> lw.measured,
                                     measures |-> lw.measures,
                                     exit |-> lw.exit,
                                     iterations |-> lw.iterations,
                                     seen |-> Len(c.placedWords)])]]
  /\ UNCHANGED <<variant, segmenter, entries, text, sortOrder, page, client,
               form>>

\* (variant of PlaceWord that draws the word at the last candidate
\* position whether it was placed or not)
PlaceWordDrawsAlways(r) ==
  /\ call[r].pc = "layout"
  /\ call[r].idx <= Len(call[r].words)
  /\ \E lw \in {LayoutWord(call[r].words, call[r].idx, call[r].ctxFont,
                             call[r].placedWords)} :
     LET c == call[r]
         isPlaced == lw.exit = "placed"
     IN call' = [call EXCEPT ![r] =
          [@ EXCEPT
             !.words[c.idx].size = lw.size,
             !.ctxFont = lw.fontPx,
             !.idx = c.idx + 1,
             !.placedWords = IF isPlaced THEN Append(@, lw.candidate) ELSE @,
             !.painted = Append(@, [text |-> lw.candidate.text,
                                    x |-> lw.candidate.x,
                                    y |-> lw.candidate.y,
                                    color |-> c.words[c.idx].color,
                                    fontPx |-> lw.fontPx]),
             !.attempts = Append(@, [text |-> c.words[c.idx].text,
                                     count |-> c.words[c.idx].count,
                                     rawSize |-> lw.rawSize,
                                     size |-> lw.size,
                                     guarded |-> lw.guarded,
                                     measured |-> lw.measured,
                                     measures |-> lw.measures,
                                     exit |-> lw.exit,
                                     iterations |-> lw.iterations,
                                     seen |-> Len(c.placedWords)])]]
  /\ UNCHANGED <<variant, segmenter, entries, text, sortOrder, page, client,
               form>>

\* (variant of PlaceWord in which a skipped word throws, so that the
\* promise is rejected)
PlaceWordThrowsOnSkip(r) ==
  /\ call[r].pc = "layout"
  /\ call[r].idx <= Len(call[r].words)
  /\ \E lw \in {LayoutWord(call[r].words, call[r].idx, call[r].ctxFont,
                             call[r].placedWords)} :
     LET c == call[r]
     IN call' = [call EXCEPT ![r] =
          IF lw.exit # "placed"
            THEN [@ EXCEPT !.pc = "rejected", !.result = "error"]
          ELSE
          [@ EXCEPT
             !.words[c.idx].size = lw.size,
             !.ctxFont = lw.fontPx,
             !.idx = c.idx + 1,
             !.placedWords = Append(@, lw.candidate),
             !.painted = Append(@, [text |-> lw.candidate.text,
                                    x |-> lw.candidate.x,
                                    y |-> lw.candidate.y,
                                    color |-> c.words[c.idx].color,
                                    fontPx |-> lw.fontPx]),
             !.attempts = Append(@, [text |-> c.words[c.idx].text,
                                     count |-> c.words[c.idx].count,
                                     rawSize |-> lw.rawSize,
                                     size |-> lw.size,
                                     guarded |-> lw.guarded,
                                     measured |-> lw.measured,
                                     measures |-> lw.measures,
                                     exit |-> lw.exit,
                                     iterations |-> lw.iterations,
                                     seen |-> Len(c.placedWords)])]]
  /\ UNCHANGED <<variant, segmenter, entries, text, sortOrder, page, client,
               form>>

\* (variant of PlaceWord in which a skipped word ends the loop)
PlaceWordUntilSkip(r) ==
  /\ call[r].pc = "layout"
  /\ call[r].idx <= Len(call[r].words)
  /\ \E lw \in {LayoutWord(call[r].words, call[r].idx, call[r].ctxFont,
                             call[r].placedWords)} :
     LET c == call[r]
         isPlaced == lw.exit = "placed"
     IN call' = [call EXCEPT ![r] =
          [@ EXCEPT
             !.words[c.idx].size = lw.size,
             !.ctxFont = lw.fontPx,
             !.idx = IF isPlaced THEN c.idx + 1 ELSE Len(c.words) + 1,
             !.placedWords = IF isPlaced THEN Append(@, lw.candidate) ELSE @,
             !.painted = IF isPlaced
                           THEN Append(@, [text |-> lw.candidate.text,
                                           x |-> lw.candidate.x,
                                           y |-> lw.candidate.y,
                                           color |-> c.words[c.idx].color,
                                           fontPx |-> lw.fontPx])
                           ELSE @,
             !.attempts = Append(@, [text |-> c.words[c.idx].text,
                                     count |-> c.words[c.idx].count,
                                     rawSize |-> lw.rawSize,
                                     size |-> lw.size,
                                     guarded |-> lw.guarded,
                                     measured |-> lw.measured,
                                     measures |-> lw.measures,
                                     exit |-> lw.exit,
                                     iterations |-> lw.iterations,
                                     seen |-> Len(c.placedWords)])]]
  /\ UNCHANGED <<variant, segmenter, entries, text, sortOrder, page, client,
               form>>

(***************************************************************************)
(* One iteration of words.forEach.                                         *)
(***************************************************************************)
PlaceWord(r) ==
  /\ call[r].pc = "layout"
  /\ call[r].idx <= Len(call[r].words)
  /\ \E lw \in {LayoutWord(call[r].words, call[r].idx, call[r].ctxFont,
                             call[r].placedWords)} :
     LET c == call[r]
         isPlaced == lw.exit = "placed"
     IN call' = [call EXCEPT ![r] =
          [@ EXCEPT
             !.words[c.idx].size = lw.size,
             !.ctxFont = lw.fontPx,
             !.idx = c.idx + 1,
             !.placedWords = IF isPlaced THEN Append(@, lw.candidate) ELSE @,
             !.painted = IF isPlaced
                           THEN Append(@, [text |-> lw.candidate.text,
                                           x |-> lw.candidate.x,
                                           y |-> lw.candidate.y,
                                           color |-> c.words[c.idx].color,
                                           fontPx |-> lw.fontPx])
                           ELSE @,
             !.attempts = Append(@, [text |-> c.words[c.idx].text,
                                     count |-> c.words[c.idx].count,
                                     rawSize |-> lw.rawSize,
                                     size |-> lw.size,
                                     guarded |-> lw.guarded,
                                     measured |-> lw.measured,
                                     measures |-> lw.measures,
                                     exit |-> lw.exit,
                                     iterations |-> lw.iterations,
                                     seen |-> Len(c.placedWords)])]]
  /\ UNCHANGED <<variant, segmenter, entries, text, sortOrder, page, client,
               form>>

(***************************************************************************)
(* canvas.toBlob(...) and its callback.                                    *)
(***************************************************************************)
ToBlob(r) ==
  /\ call[r].pc = "layout"
  /\ call[r].idx > Len(call[r].words)
  /\ call' = [call EXCEPT ![r].pc = "encoding"]
  /\ UNCHANGED <<variant, segmenter, entries, text, sortOrder, page, client,
               form>>

BlobCallback(r) ==
  /\ call[r].pc = "encoding"
  /\ \E blob \in {"blob", "null"} :
       call' = [call EXCEPT ![r].pc = "resolved", ![r].result = blob]
  /\ UNCHANGED <<variant, segmenter, entries, text, sortOrder, page, client,
               form>>

Step(r) == Generate(r) \/ PlaceWord(r) \/ ToBlob(r) \/ BlobCallback(r)

\* one call
Next == Step(1)

Spec == Init /\ [][Next]_vars

\* two calls on the same argument, interleaved at will
SmallPool == {Blank, Hi, Hello, ConstructorName}

SmallInputs ==
  UNION {[1..n -> SmallPool] : n \in 0..(MaxEntries - 1)} \cup ScenarioInputs

SmallTexts ==
  { JoinWords(ws) :
      ws \in UNION {[1..n -> TokenPool] : n \in 0..(MaxTokens - 1)} }
  \cup TokenScenarioTexts

InitTwo == InitInputs(SmallInputs, SmallTexts)

NextTwo == Step(1) \/ Step(2)

SpecTwo == InitTwo /\ [][NextTwo]_vars

\* The executor of the promise runs to completion once the call is made,
\* and the browser always runs the callback of canvas.toBlob: no step that
\* is possible is put off forever.
\* (One call, on the arguments of InitTwo.)
SpecLive == InitTwo /\ [][Next]_vars /\ WF_vars(Next)


(***************************************************************************)
(* LiveDisplayPage: the snapshot, the debounced effect and its timer.      *)
(***************************************************************************)
\* what fetchAllTexts may give, and the texts a new entry may carry
PageFetches == {<<>>, <<Blank>>, <<Hi>>, <<Hi, Hello>>}
PageEntries == {Blank, Hi, Hello}

Snapshot == [entries |-> entries, text |-> text]

\* a task of the page is running: the callback of the timer up to
\* canvas.toBlob, or the rest of it after the await
Busy(r) ==
  /\ page.stage[r] = "running"
  /\ call[r].pc \in {"idle", "layout", "resolved"}

NoneBusy == \A r \in Runs : ~Busy(r)

\* entries.length === 0 / !allText.trim()
NothingToShow(entryList, allText) ==
  IF Phrase THEN Len(entryList) = 0 ELSE trim(allText) = <<>>

\* clearTimeout(timer)
ClearTimeout(timers, timer) == {t \in timers : t.id # timer}

\* (variant of DebouncedEffect whose effect returns no cleanup function)
DebouncedEffectUncleared(p, entryList, allText) ==
  IF NothingToShow(entryList, allText)
    THEN [p EXCEPT !.imageUrl = NoUrl, !.cleanup = 0]
    ELSE [p EXCEPT
           !.timers = @ \cup
              {[id |-> p.changes,
                snapshot |-> [entries |-> entryList, text |-> allText]]},
           !.cleanup = p.changes]

\* the debounced effect, run for a new snapshot (the p.changes-th one),
\* after the cleanup function of the effect before it
DebouncedEffect(p, entryList, allText) ==
  IF NothingToShow(entryList, allText)
    THEN [p EXCEPT !.imageUrl = NoUrl,
                   !.timers = ClearTimeout(@, p.cleanup),
                   !.cleanup = 0]
    ELSE [p EXCEPT
           !.timers = ClearTimeout(@, p.cleanup) \cup
              {[id |-> p.changes,
                snapshot |-> [entries |-> entryList, text |-> allText]]},
           !.cleanup = p.changes]

\* setEntries / setAllText with a new value and the render that follows;
\* a string equal to the one before is no update
SetSnapshot(p, entryList, allText) ==
  /\ entries' = entryList
  /\ text' = allText
  /\ \E arr \in {ObjectEntries(IF Phrase THEN FrequencyMap(entryList)
                                        ELSE TokenFrequencyMap(allText))} :
       sortOrder' \in SortOrders(arr)
  /\ page' = IF ~Phrase /\ allText = text
               THEN p
               ELSE DebouncedEffect(p, entryList, allText)

\* loadInitialData, from the answer of fetchAllTexts on
LoadInitialData ==
  /\ ~page.loaded
  /\ NoneBusy
  /\ \E fetchedEntries \in PageFetches :
       IF Len(fetchedEntries) > 0
         THEN SetSnapshot([page EXCEPT !.loaded = TRUE, !.changes = @ + 1,
                                       !.entryCount = Len(fetchedEntries)],
                          IF Phrase THEN fetchedEntries ELSE <<>>,
                          IF Phrase THEN <<>> ELSE JoinWords(fetchedEntries))
         ELSE /\ page' = [page EXCEPT !.loaded = TRUE]
              /\ UNCHANGED <<entries, text, sortOrder>>
  /\ UNCHANGED <<variant, segmenter, call, client, form>>

\* the callback of subscribeToNewEntries
NewEntry(input_text) ==
  /\ page.changes < Cardinality(Runs)
  /\ NoneBusy
  /\ SetSnapshot([page EXCEPT !.changes = @ + 1, !.entryCount = @ + 1,
                               !.added = Append(@, input_text)],
                 IF Phrase THEN <<input_text>> \o entries ELSE <<>>,
                 IF Phrase THEN <<>>
                 ELSE IF text # <<>> THEN text \o <<" ">> \o input_text
                 ELSE input_text)
  /\ UNCHANGED <<variant, segmenter, call, client, form>>

\* a timer of the effect goes off: its callback starts
TimerFires ==
  /\ NoneBusy
  /\ \E timer \in page.timers, r \in Runs :
       /\ page.stage[r] = "none"
       /\ \A q \in Runs : q < r => page.stage[q] # "none"
       /\ page' = [page EXCEPT !.timers = @ \ {timer},
                                !.stage[r] = "running",
                                !.arg[r] = timer.snapshot]
  /\ UNCHANGED <<variant, segmenter, entries, text, sortOrder, call, client,
               form>>

\* await generateWordCloudBlob(...): the call the callback makes
Await(r) ==
  /\ page.stage[r] = "running"
  /\ \A q \in Runs \ {r} : ~Busy(q)
  /\ Step(r)

\* the rest of the callback: if (blob) setImageUrl(URL.createObjectURL(blob))
Resume(r) ==
  /\ page.stage[r] = "running"
  /\ call[r].pc = "resolved"
  /\ page' = [page EXCEPT
       !.stage[r] = "done",
       !.imageUrl = IF call[r].result = "blob" THEN ObjectUrl(page.arg[r])
                    ELSE @]
  /\ UNCHANGED <<variant, segmenter, entries, text, sortOrder, call, client,
               form>>

InitPage == InitInputs({<<>>}, {<<>>})

NextPage ==
  \/ LoadInitialData
  \/ \E input_text \in PageEntries : NewEntry(input_text)
  \/ TimerFires
  \/ \E r \in Runs : Await(r) \/ Resume(r)

SpecPage == InitPage /\ [][NextPage]_vars

(***************************************************************************)
(* The Google Sheets client: saveEntry, fetchAllTexts,                     *)
(* subscribeToNewEntries.                                                  *)
(***************************************************************************)
\* new Date().toISOString() at clock reading n, as a string of two digits
IsoString(n) == <<Digits[((n \div 10) % 10) + 1], Digits[(n % 10) + 1]>>

\* the rows the script appends to the sheet, in this order; id 0 is a
\* missing id, <<>> a missing created_at
SheetRows ==
  << [id |-> 101, created_at |-> <<"5", "0">>, input_text |-> Hi],
     [id |-> 0, created_at |-> <<>>, input_text |-> HiCaps],
     [id |-> 102, created_at |-> <<"0", "9">>, input_text |-> Hello] >>

\* a.localeCompare(b) < 0 for strings of digits
RECURSIVE ComparesBefore(_, _)
ComparesBefore(a, b) ==
  IF b = <<>> THEN FALSE
  ELSE IF a = <<>> THEN TRUE
  ELSE IF a[1] = b[1] THEN ComparesBefore(Tail(a), Tail(b))
  ELSE DigitValue(a[1]) < DigitValue(b[1])

\* (variant of SortOldestFirst that leaves the order of the answer)
SortSkipped(newEntries) == newEntries

\* newEntries.sort((a, b) => (a.created_at || '').localeCompare(...)):
\* stable, ascending
RECURSIVE SortOldestFirst(_)
SortOldestFirst(newEntries) ==
  IF Len(newEntries) <= 1 THEN newEntries
  ELSE LET last == newEntries[Len(newEntries)]
           rest == SortOldestFirst(SubSeq(newEntries, 1, Len(newEntries) - 1))
           before == SelectSeq(rest, LAMBDA e :
                        ~ComparesBefore(last.created_at, e.created_at))
           after == SelectSeq(rest, LAMBDA e :
                        ComparesBefore(last.created_at, e.created_at))
       IN before \o <<last>> \o after

\* the events of the client so far
Events(c) == Len(c.saves) + c.ticks + Len(c.backend)

\* a call of fetchAllTexts, pending: ok tells whether its request will
\* succeed, data holds the rows the script read from the sheet
Request(c, ok) == [pc |-> "pending", ok |-> ok, data |-> c.backend]

\* what fetchAllTexts resolves to: the rows the script read, or the copy
\* of localEntries that its catch clause takes when the request fails
fetchAllTexts(c, request) ==
  IF request.ok THEN request.data ELSE c.localEntries

\* the script appends a row to the sheet
ServerInsert ==
  /\ Events(client) < MaxEvents
  /\ Len(client.backend) < Len(SheetRows)
  /\ client' = [client EXCEPT
       !.backend = Append(@, SheetRows[Len(client.backend) + 1])]
  /\ UNCHANGED <<variant, segmenter, entries, text, sortOrder, call, page,
                 form>>

\* the calls of onNewEntry that InMemoryEmitter.emit makes for an INSERT
\* event with this payload
Emitted(c, entry) ==
  [i \in 1..Len(c.listeners) |->
     [entry |-> entry, via |-> "local", poll |-> 0,
      unsubscribed |-> c.subscribed = "unsubscribed"]]

\* saveEntry up to the await of fetch
SaveEntryStart(c, inputText) ==
  LET entry == [id |-> c.now + 1, created_at |-> IsoString(c.now + 1),
                input_text |-> inputText]
  IN [c EXCEPT
       !.now = @ + 1,
       !.localEntries = Append(@, entry),
       !.announced = @ \o Emitted(c, entry),
       !.saves = Append(@, [entry |-> entry, pc |-> "posting",
                            log |-> <<"push", "emit", "fetch">>,
                            emitted |-> Len(c.listeners),
                            error |-> "pending", data |-> "pending"])]

\* (variant of SaveEntryReturn that reports the failure and takes the
\* entry back)
SaveEntryReturnStrict(c, k, outcome) ==
  IF outcome = "ok"
    THEN [c EXCEPT !.saves[k].pc = "returned", !.saves[k].error = "null",
                   !.saves[k].data = "result"]
    ELSE [c EXCEPT !.saves[k].pc = "returned", !.saves[k].error = "error",
                   !.saves[k].data = "none",
                   !.localEntries =
                      SelectSeq(@, LAMBDA e : e # c.saves[k].entry)]

\* saveEntry from the answer of fetch on: the request succeeded ("ok"),
\* the script answered with status 'error' ("error") or fetch or
\* response.json() threw ("throws")
SaveEntryReturn(c, k, outcome) ==
  IF outcome = "ok"
    THEN [c EXCEPT !.saves[k].pc = "returned", !.saves[k].error = "null",
                   !.saves[k].data = "result"]
    ELSE [c EXCEPT !.saves[k].pc = "returned", !.saves[k].error = "null",
                   !.saves[k].data = "id"]

SaveOutcomes == {"ok", "error", "throws"}

\* a caller other than InputPage calls saveEntry
SaveEntry(inputText) ==
  /\ Events(client) < MaxEvents
  /\ client' = SaveEntryStart(client, inputText)
  /\ UNCHANGED <<variant, segmenter, entries, text, sortOrder, call, page,
                 form>>

SaveEntryReturns(k, outcome) ==
  /\ k \in 1..Len(client.saves)
  /\ client.saves[k].pc = "posting"
  /\ client' = SaveEntryReturn(client, k, outcome)
  /\ UNCHANGED <<variant, segmenter, entries, text, sortOrder, call, page,
                 form>>

\* subscribeToNewEntries(onNewEntry); ok tells whether the request of the
\* initial fetchAllTexts succeeds
Subscribe(ok) ==
  /\ client.subscribed = "no"
  /\ client' = [client EXCEPT
       !.listeners = Append(@, "onNewEntry"),
       !.subscribed = "yes",
       !.isPolling = TRUE,
       !.lastKnownIds = {},
       !.known = Request(client, ok),
       !.pollInterval = TRUE,
       !.existing = client.backend]
  /\ UNCHANGED <<variant, segmenter, entries, text, sortOrder, call, page,
                 form>>

\* the ids of the entries that have one
IdsOf(fetched) == {fetched[i].id : i \in 1..Len(fetched)} \ {0}

\* the then callback of the initial fetchAllTexts
KnownResolves ==
  /\ client.known.pc = "pending"
  /\ client' = [client EXCEPT
       !.known.pc = "done",
       !.lastKnownIds = @ \cup IdsOf(fetchAllTexts(client, client.known))]
  /\ UNCHANGED <<variant, segmenter, entries, text, sortOrder, call, page,
                 form>>

\* the callback of setInterval, up to the await of fetchAllTexts
PollTick(ok) ==
  /\ client.pollInterval
  /\ Events(client) < MaxEvents
  /\ client' = [client EXCEPT
       !.ticks = @ + 1,
       !.polls = IF client.isPolling
                   THEN Append(@, Request(client, ok))
                   ELSE @]
  /\ UNCHANGED <<variant, segmenter, entries, text, sortOrder, call, page,
                 form>>

\* entries.filter(e => e.id && !lastKnownIds.has(e.id))
NewEntries(c, fetched) ==
  SelectSeq(fetched, LAMBDA e : e.id # 0 /\ e.id \notin c.lastKnownIds)

\* the callback of setInterval after the await: filter, sort, forEach
PollDelivers(c, k) ==
  LET newEntries ==
        SortOldestFirst(NewEntries(c, fetchAllTexts(c, c.polls[k])))
  IN [c EXCEPT
       !.polls[k].pc = "done",
       !.lastKnownIds = @ \cup IdsOf(newEntries),
       !.announced = @ \o
          [i \in 1..Len(newEntries) |->
             [entry |-> newEntries[i], via |-> "poll", poll |-> k,
              unsubscribed |-> c.subscribed = "unsubscribed"]]]

PollResolves(k) ==
  /\ k \in 1..Len(client.polls)
  /\ client.polls[k].pc = "pending"
  /\ client' = PollDelivers(client, k)
  /\ UNCHANGED <<variant, segmenter, entries, text, sortOrder, call, page,
                 form>>

\* the function subscribeToNewEntries returned
Unsubscribe ==
  /\ client.subscribed = "yes"
  /\ client' = [client EXCEPT
       !.subscribed = "unsubscribed",
       !.isPolling = FALSE,
       !.pollInterval = FALSE,
       !.listeners = SelectSeq(@, LAMBDA l : l # "onNewEntry")]
  /\ UNCHANGED <<variant, segmenter, entries, text, sortOrder, call, page,
                 form>>

\* the texts callers save
SavedTexts == {Hi}

InitSheets == InitInputs({<<>>}, {<<>>}) /\ variant = "phrase"

NextSheets ==
  \/ ServerInsert
  \/ \E inputText \in SavedTexts : SaveEntry(inputText)
  \/ \E k \in 1..MaxEvents, outcome \in SaveOutcomes :
       SaveEntryReturns(k, outcome)
  \/ \E ok \in BOOLEAN : Subscribe(ok)
  \/ KnownResolves
  \/ \E ok \in BOOLEAN : PollTick(ok)
  \/ \E k \in 1..MaxEvents : PollResolves(k)
  \/ Unsubscribe

SpecSheets == InitSheets /\ [][NextSheets]_vars

(***************************************************************************)
(* InputPage.                                                              *)
(***************************************************************************)
\* what the user may have in the textarea
FormTexts == {<<>>, Blank, Hi}

\* onChange of the textarea
TypeText(value) ==
  /\ value # form.inputText
  /\ form' = [form EXCEPT !.inputText = value]
  /\ UNCHANGED <<variant, segmenter, entries, text, sortOrder, call, page,
                 client>>

\* handleSubmit, up to the await of saveEntry
handleSubmit ==
  /\ Events(client) < MaxEvents
  /\ IF trim(form.inputText) = <<>>
       THEN UNCHANGED <<client, form>>
       ELSE /\ client' = SaveEntryStart(client, form.inputText)
            /\ form' = [form EXCEPT !.isSubmitting = TRUE,
                                    !.status = "idle",
                                    !.pending = @ + 1,
                                    !.submitted = Append(@, form.inputText)]
  /\ UNCHANGED <<variant, segmenter, entries, text, sortOrder, call, page>>

\* onClick of the button, which is disabled while isSubmitting or when the
\* text is blank
ClickButton ==
  /\ ~(form.isSubmitting \/ trim(form.inputText) = <<>>)
  /\ handleSubmit

\* onKeyDown of the textarea: Enter without Shift submits
KeyDown(key, shiftKey) ==
  /\ key = "Enter" /\ ~shiftKey
  /\ handleSubmit

\* handleSubmit from the return of its saveEntry call (the k-th) on
SubmitReturns(k, outcome) ==
  /\ k \in 1..Len(client.saves)
  /\ client.saves[k].pc = "posting"
  /\ \E c \in {SaveEntryReturn(client, k, outcome)} :
       /\ client' = c
       /\ form' = IF c.saves[k].error # "null"
                    THEN [form EXCEPT !.status = "error",
                                      !.isSubmitting = FALSE,
                                      !.pending = @ - 1]
                    ELSE [form EXCEPT !.status = "success",
                                      !.inputText = <<>>,
                                      !.timers = @ + 1,
                                      !.isSubmitting = FALSE,
                                      !.pending = @ - 1]
  /\ UNCHANGED <<variant, segmenter, entries, text, sortOrder, call, page>>

\* setTimeout(() => setStatus('idle'), 3000)
StatusTimerFires ==
  /\ form.timers > 0
  /\ form' = [form EXCEPT !.status = "idle", !.timers = @ - 1]
  /\ UNCHANGED <<variant, segmenter, entries, text, sortOrder, call, page,
                 client>>

NextInput ==
  \/ \E value \in FormTexts : TypeText(value)
  \/ ClickButton
  \/ \E key \in {"Enter", "a"}, shiftKey \in BOOLEAN :
       KeyDown(key, shiftKey)
  \/ \E k \in 1..MaxEvents, outcome \in SaveOutcomes :
       SubmitReturns(k, outcome)
  \/ StatusTimerFires

SpecInput == InitSheets /\ [][NextInput]_vars
(***************************************************************************)
(* Properties.                                                             *)
(***************************************************************************)
Started(r) == call[r].pc # "idle"
LayoutDone(r) ==
  call[r].ctx /\ call[r].pc \in {"encoding", "resolved"}
PlacedAttempts(r) ==
  { n \in 1..Len(call[r].attempts) : call[r].attempts[n].exit = "placed" }

\* twice the gap between two boxes along x and along y, without padding
XGap(a, b) ==
  IF a.x < b.x THEN (2 * b.x - b.width) - (2 * a.x + a.width)
  ELSE (2 * a.x - a.width) - (2 * b.x + b.width)
YGap(a, b) ==
  IF a.y < b.y THEN (2 * b.y - b.height) - (2 * a.y + a.height)
  ELSE (2 * a.y - a.height) - (2 * b.y + b.height)

\* C1: in every state of a call, any two distinct terms of placedWords are
\* more than 2 * padding apart along x or along y (their boxes grown by
\* padding on every side do not intersect); padding is 15 px in the phrase
\* variant and 4 px in the token variant.
NoOverlap ==
  \A r \in Runs :
    \A i, j \in 1..Len(call[r].placedWords) :
      i < j =>
        LET a == call[r].placedWords[i]
            b == call[r].placedWords[j]
        IN \/ XGap(a, b) > 4 * Padding * Milli
           \/ /\ ~IsNaN(a.height) /\ ~IsNaN(b.height)
              /\ YGap(a, b) > 4 * Padding * Milli

\* three terms placed, the last one after its first position was refused
WitnessNoOverlap ==
  \E r \in Runs :
    /\ Len(call[r].placedWords) >= 3
    /\ \E n \in PlacedAttempts(r) :
         call[r].attempts[n].seen >= 2 /\ call[r].attempts[n].iterations > 0

\* C2: every term of placedWords has x - width/2 >= 0,
\* x + width/2 <= canvas.width, y - height/2 >= 0 and
\* y + height/2 <= canvas.height.
BoundaryInvariant ==
  \A r \in Runs :
    \A i \in 1..Len(call[r].placedWords) :
      LET p == call[r].placedWords[i]
      IN /\ 2 * p.x - p.width >= 0
         /\ 2 * p.x + p.width <= 2 * CanvasWidth * Milli
         /\ ~IsNaN(p.height)
         /\ 2 * p.y - p.height >= 0
         /\ 2 * p.y + p.height <= 2 * CanvasHeight * Milli

\* the box of p grown by padding lies within the canvas
PaddedInside(p) ==
  /\ 2 * p.x - p.width - 2 * Padding * Milli >= 0
  /\ 2 * p.x + p.width + 2 * Padding * Milli <= 2 * CanvasWidth * Milli
  /\ 2 * p.y - p.height - 2 * Padding * Milli >= 0
  /\ 2 * p.y + p.height + 2 * Padding * Milli <= 2 * CanvasHeight * Milli

\* C3 as stated: the box of every placed term, grown by padding, lies
\* within the canvas (stated for the terms whose height is a number).
PaddedBoundaryInvariant ==
  \A r \in Runs :
    \A i \in 1..Len(call[r].placedWords) :
      ~IsNaN(call[r].placedWords[i].height)
        => PaddedInside(call[r].placedWords[i])

\* C3 as amended: a position is refused whenever one of the comparisons
\* x - width/2 < 0, x + width/2 > canvas.width, y - height/2 < 0,
\* y + height/2 > canvas.height holds for the box without padding, so no
\* term of placedWords satisfies any of the four.
UnpaddedBoundaryRejection ==
  \A r \in Runs :
    \A i \in 1..Len(call[r].placedWords) :
      LET p == call[r].placedWords[i]
      IN /\ ~(2 * p.x - p.width < 0)
         /\ ~(2 * p.x + p.width > 2 * CanvasWidth * Milli)
         /\ ~(~IsNaN(p.height) /\ 2 * p.y - p.height < 0)
         /\ ~(~IsNaN(p.height)
              /\ 2 * p.y + p.height > 2 * CanvasHeight * Milli)

\* a term placed after a search, inside the canvas but less than padding
\* from its edge
WitnessNearEdge ==
  \E r \in Runs :
    \E n \in PlacedAttempts(r) :
      /\ call[r].attempts[n].iterations > 0
      /\ LET p == call[r].placedWords[call[r].attempts[n].seen + 1]
         IN ~IsNaN(p.height) /\ ~PaddedInside(p)

AllCountsNumeric(r) ==
  \A i \in 1..Len(call[r].words) : IsNum(call[r].words[i].count)

\* C4 as stated: at the end of a layout pass, a placed term with a higher
\* count has a final font size (after the overflow guard) at least that
\* of a placed term with a lower count (stated for the calls in which
\* every count is a number).
MonotonicFinalSize ==
  \A r \in Runs :
    (LayoutDone(r) /\ AllCountsNumeric(r)) =>
      \A i, j \in 1..Len(call[r].placedWords) :
        LET a == call[r].placedWords[i]
            b == call[r].placedWords[j]
        IN a.count.v > b.count.v => a.size >= b.size

\* C4 as amended: for two placed terms A and B with
\* maxCount >= count(A) > count(B) >= minCount (the bounds the loop
\* interpolates between, compared as numbers), the font size the linear
\* interpolation gives A, before the overflow guard, is at least that of B.
MonotonicInterpolatedSize ==
  \A r \in Runs :
    \A i, j \in PlacedAttempts(r) :
      LET a == call[r].attempts[i]
          b == call[r].attempts[j]
          maxCount == CountOrOne(call[r].words, 1)
          minCount == CountOrOne(call[r].words, Len(call[r].words))
      IN ( /\ IsNum(a.count) /\ IsNum(b.count)
           /\ IsNum(maxCount) /\ IsNum(minCount)
           /\ maxCount.v >= a.count.v
           /\ a.count.v > b.count.v
           /\ b.count.v >= minCount.v )
         => (~IsNaN(a.rawSize) /\ ~IsNaN(b.rawSize) /\ a.rawSize >= b.rawSize)

\* the guard shrank a placed term below a placed term of lower count,
\* whose interpolated size is smaller
WitnessGuardInversion ==
  \E r \in Runs :
    /\ LayoutDone(r)
    /\ \E i, j \in PlacedAttempts(r) :
         LET a == call[r].attempts[i]
             b == call[r].attempts[j]
         IN /\ IsNum(a.count) /\ IsNum(b.count)
            /\ a.count.v > b.count.v
            /\ a.guarded
            /\ a.rawSize > b.rawSize
            /\ a.size < b.size

\* a <= b of JavaScript on counts: false unless both are numbers
CountLeq(a, b) == IsNum(a) /\ IsNum(b) /\ a.v <= b.v

\* C5: the loop attempts at most the retention cap of terms (120 phrase,
\* 100 token), and every term dropped by the cap has a count <= the count
\* of every retained term.
CapRespected ==
  \A r \in Runs :
    /\ Len(call[r].words) <= RetentionCap
    /\ Len(call[r].attempts) <= RetentionCap
    /\ \A d \in 1..Len(call[r].dropped) :
         \A k \in 1..Len(call[r].words) :
           CountLeq(call[r].dropped[d].count, call[r].words[k].count)

\* the argument holds nothing but empty and white-space-only text
AllBlank ==
  IF Phrase
    THEN \A i \in 1..Len(entries) :
           \A k \in 1..Len(entries[i]) : entries[i][k] \in WhiteSpace
    ELSE \A k \in 1..Len(text) : text[k] \in WhiteSpace

\* C6: when every entry is empty or white space only, a started call has
\* an empty term set and has resolved to null, with no canvas created and
\* nothing measured, placed or painted.
EmptyCase ==
  \A r \in Runs :
    (AllBlank /\ Started(r)) =>
      /\ call[r].words = <<>>
      /\ call[r].pc = "resolved"
      /\ call[r].result = "null"
      /\ ~call[r].canvas /\ ~call[r].ctx
      /\ call[r].attempts = <<>>
      /\ call[r].placedWords = <<>>
      /\ call[r].painted = <<>>

\* a call on a non-empty list of blank entries has resolved
WitnessEmptyCase ==
  \E r \in Runs :
    /\ Phrase /\ Len(entries) >= 2 /\ AllBlank
    /\ \E i \in 1..Len(entries) : entries[i] # <<>>
    /\ call[r].pc = "resolved"

\* C7 as stated (last part): a call resolves to no image only if the
\* term set was empty.
NoImageOnlyIfEmpty ==
  \A r \in Runs : call[r].result = "null" => call[r].words = <<>>

\* C7 as amended: a skipped term does not end the loop: when toBlob is
\* called every term has been attempted; and a call resolves to null only
\* if the term set was empty, no 2D context was obtained, or every term
\* was attempted and toBlob passed null.
PartialPlacementCompletes ==
  \A r \in Runs :
    /\ LayoutDone(r) => Len(call[r].attempts) = Len(call[r].words)
    /\ call[r].pc = "layout" => Len(call[r].attempts) = call[r].idx - 1
    /\ call[r].result = "null" =>
         \/ call[r].words = <<>>
         \/ ~call[r].ctx
         \/ Len(call[r].attempts) = Len(call[r].words)

\* a call resolved to an image after a term was skipped and a later one
\* placed
WitnessSkipThenPlace ==
  \E r \in Runs :
    /\ call[r].result = "blob"
    /\ \E i, j \in 1..Len(call[r].attempts) :
         /\ i < j
         /\ call[r].attempts[i].exit # "placed"
         /\ call[r].attempts[j].exit = "placed"

\* what a run shows, colours left out
Layout(r) ==
  [words |-> [i \in 1..Len(call[r].words) |->
                <<call[r].words[i].text, call[r].words[i].count,
                  call[r].words[i].size>>],
   placed |-> [i \in 1..Len(call[r].placedWords) |->
                 [call[r].placedWords[i] EXCEPT !.color = ""]],
   attempts |-> call[r].attempts]

Ranks(r) ==
  [i \in 1..Len(call[r].words) |->
     <<call[r].words[i].text, call[r].words[i].count>>]

\* C8: two calls on the same argument have the same terms, ranks and
\* counts, and, when they have gone through as many terms, the same font
\* sizes, outcomes and positions, whatever colours they drew.
DeterminismModuloColor ==
  (Started(1) /\ Started(2)) =>
    /\ Ranks(1) = Ranks(2)
    /\ (call[1].ctx /\ call[2].ctx /\ call[1].idx = call[2].idx)
         => Layout(1) = Layout(2)

\* two finished calls that drew different colours and placed two terms
WitnessTwoCalls ==
  /\ call[1].result = "blob" /\ call[2].result = "blob"
  /\ Len(call[1].placedWords) >= 2
  /\ \E i \in 1..Len(call[1].words) :
       call[1].words[i].color # call[2].words[i].color

\* C9: the aggregator's output is in non-increasing order of count, the
\* loop attempts the terms in that order, one at a time, and the search of
\* term N sees exactly the terms placed among terms 1..N-1.
RankOrder ==
  \A r \in Runs :
    /\ \A i, j \in 1..Len(call[r].words) :
         (i < j /\ IsNum(call[r].words[i].count)
                /\ IsNum(call[r].words[j].count))
           => call[r].words[i].count.v >= call[r].words[j].count.v
    /\ \A n \in 1..Len(call[r].attempts) :
         /\ call[r].attempts[n].text = call[r].words[n].text
         /\ call[r].attempts[n].seen =
              Cardinality({m \in PlacedAttempts(r) : m < n})

\* the trimmed, non-empty texts of entries and how often each occurs
TrimmedTexts == {trim(entries[i]) : i \in 1..Len(entries)} \ {<<>>}
Occurrences(t) == Cardinality({i \in 1..Len(entries) : trim(entries[i]) = t})

\* C10: before truncation processPhrases returns exactly one term per
\* distinct non-empty trimmed entry text, and its count is the number of
\* entries with that trimmed text.
CountingExact ==
  \A r \in Runs :
    (Phrase /\ Started(r)) =>
      LET all == call[r].words \o call[r].dropped
      IN /\ \A i \in 1..Len(all) :
              /\ all[i].text \in TrimmedTexts
              /\ all[i].count = Num(Occurrences(all[i].text))
         /\ \A t \in TrimmedTexts :
              Cardinality({i \in 1..Len(all) : all[i].text = t}) = 1

\* the terms of all that carry the trimmed text of entry i
TermsOf(all, i) == {k \in 1..Len(all) : all[k].text = trim(entries[i])}

\* C11: in processPhrases two entries contribute to the same term if and
\* only if their trimmed texts are identical: every entry that is not
\* empty after trimming has exactly one term, which carries its whole
\* trimmed text unchanged (no splitting, no case folding), and no term
\* comes from anything else.
PhraseAtomicity ==
  \A r \in Runs :
    (Phrase /\ Started(r)) =>
      LET all == call[r].words \o call[r].dropped
      IN /\ \A i \in 1..Len(entries) :
              Cardinality(TermsOf(all, i)) =
                (IF trim(entries[i]) = <<>> THEN 0 ELSE 1)
         /\ \A k \in 1..Len(all) :
              \E i \in 1..Len(entries) : all[k].text = trim(entries[i])

\* all counts of the list are the same value
AllCountsEqual(wordList) ==
  \A i, j \in 1..Len(wordList) : wordList[i].count = wordList[j].count

\* C12: before the overflow guard every size lies in
\* [minFontSize, maxFontSize]; when the retained counts are not all equal
\* the top-ranked term gets maxFontSize, the lowest-ranked minFontSize.
FontSizeMapping ==
  \A r \in Runs :
    /\ \A n \in 1..Len(call[r].attempts) :
         /\ ~IsNaN(call[r].attempts[n].rawSize)
         /\ call[r].attempts[n].rawSize >= MinFontSize
         /\ call[r].attempts[n].rawSize <= MaxFontSize
    /\ (LayoutDone(r) /\ ~AllCountsEqual(call[r].words)) =>
         /\ call[r].attempts[1].rawSize = MaxFontSize
         /\ call[r].attempts[Len(call[r].words)].rawSize = MinFontSize

\* C13: when all retained terms share one count (a single term included)
\* every term's size before the overflow guard is maxFontSize, and it is
\* a number (no 0/0 was evaluated).
DegenerateEqualCount ==
  \A r \in Runs :
    AllCountsEqual(call[r].words) =>
      \A n \in 1..Len(call[r].attempts) :
        call[r].attempts[n].rawSize = MaxFontSize

\* a layout of two or more terms of one count has been carried out
WitnessEqualCount ==
  \E r \in Runs :
    /\ LayoutDone(r)
    /\ Len(call[r].words) >= 2
    /\ AllCountsEqual(call[r].words)
    /\ Len(call[r].attempts) = Len(call[r].words)

\* C14: a term whose measured width at its interpolated size exceeds 95%
\* of the canvas width gets the size floor(size * 0.95 * canvas.width /
\* width), strictly smaller than the interpolated one, and is measured
\* once more; every other term keeps its interpolated size.
OverflowGuard ==
  \A r \in Runs :
    \A n \in 1..Len(call[r].attempts) :
      LET a == call[r].attempts[n]
      IN IF a.measured > GuardWidth
           THEN /\ a.measures = 2
                /\ ~IsNaN(a.rawSize) /\ ~IsNaN(a.size)
                /\ a.size = (a.rawSize * GuardWidth) \div a.measured
                /\ a.size < a.rawSize
           ELSE /\ a.measures = 1
                /\ a.size = a.rawSize

\* C15: in a call with a non-empty term set and a context, the top-ranked
\* term is placed at the exact canvas centre on the first spiral step.
TopTermAtCentre ==
  \A r \in Runs :
    (call[r].ctx /\ Len(call[r].attempts) >= 1) =>
      /\ call[r].attempts[1].exit = "placed"
      /\ call[r].attempts[1].iterations = 0
      /\ Len(call[r].placedWords) >= 1
      /\ call[r].placedWords[1].text = call[r].words[1].text
      /\ call[r].placedWords[1].x = CenterX
      /\ call[r].placedWords[1].y = CenterY

\* the search of attempt a evaluated at most maxIterations positions and
\* ended in one of the three ways the loop can end
SearchBounded(a) ==
  /\ a.exit \in {"placed", "radius", "cap"}
  /\ a.iterations >= 0
  /\ a.iterations + (IF a.exit = "cap" THEN 0 ELSE 1) <= MaxIterations
  /\ a.exit = "cap" => a.iterations = MaxIterations

\* every finished search is bounded, and the terms in placedWords are
\* exactly the attempted terms not skipped, each once and painted once
SearchesEnd ==
  \A r \in Runs :
    /\ \A n \in 1..Len(call[r].attempts) : SearchBounded(call[r].attempts[n])
    /\ Len(call[r].placedWords) = Cardinality(PlacedAttempts(r))
    /\ Len(call[r].painted) = Len(call[r].placedWords)
    /\ \A n \in PlacedAttempts(r) :
         call[r].placedWords[call[r].attempts[n].seen + 1].text
           = call[r].attempts[n].text

\* C16: every search evaluates at most maxIterations positions (3000
\* phrase, 1500 token) and ends with the term either placed or skipped;
\* and every call that was made reaches canvas.toBlob or has resolved
\* without an image.
BoundedSearchAndTermination ==
  /\ []SearchesEnd
  /\ (Started(1) ~> (call[1].pc \in {"encoding", "resolved"}))

\* a call has resolved after one search ended by a skip and another found
\* a place after its first position was refused
WitnessSearchEnds ==
  \E r \in Runs :
    /\ call[r].pc = "resolved"
    /\ \E i, j \in 1..Len(call[r].attempts) :
         /\ call[r].attempts[i].exit = "radius"
         /\ call[r].attempts[j].exit = "placed"
         /\ call[r].attempts[j].iterations > 0

\* a call is not started, running, waiting for toBlob, or resolved with a
\* Blob or null; it never ends any other way
NoFault ==
  \A r \in Runs :
    /\ call[r].pc \in {"idle", "layout", "encoding", "resolved"}
    /\ call[r].pc = "resolved" <=> call[r].result \in {"blob", "null"}
    /\ call[r].pc # "resolved" => call[r].result = "pending"
    /\ (call[r].canvas /\ ~call[r].ctx) =>
         /\ call[r].pc = "resolved"
         /\ call[r].result = "null"
         /\ call[r].attempts = <<>>
         /\ call[r].placedWords = <<>>
         /\ call[r].painted = <<>>

\* C19: the promise of generateWordCloudBlob always settles by resolving
\* with a Blob or null and is never rejected; when no 2D context is
\* obtained it resolves to null with nothing measured, placed or painted.
FailuresAreAbsentResults ==
  /\ []NoFault
  /\ (Started(1) ~> (call[1].pc = "resolved"))

\* a call with terms to lay out resolved to null for want of a context
WitnessNoContext ==
  \E r \in Runs :
    /\ call[r].canvas /\ ~call[r].ctx
    /\ Len(call[r].words) >= 2
    /\ call[r].result = "null"

\* radius of the spiral at the step where the search of attempt a ended
EndRadius(a) == a.iterations * RadiusStep

\* the longer side of the canvas
LongerSide == IF CanvasWidth > CanvasHeight THEN CanvasWidth ELSE CanvasHeight

\* C17 as stated: a term is skipped once the spiral radius exceeds the
\* canvas diagonal sqrt(width^2 + height^2): every search that is
\* abandoned ends at a radius beyond the diagonal.
SkippedBeyondDiagonal ==
  \A r \in Runs :
    \A n \in 1..Len(call[r].attempts) :
      LET a == call[r].attempts[n]
      IN a.exit = "radius" =>
           EndRadius(a) * EndRadius(a)
             > CanvasWidth * CanvasWidth + CanvasHeight * CanvasHeight

\* C17 as amended: a search is abandoned only at a radius beyond the
\* longer side of the canvas; for a term whose size is a number it is
\* abandoned at the first step beyond the longer side, and no position
\* beyond the longer side (hence none beyond the diagonal) is accepted.
SkippedBeyondLongerSide ==
  \A r \in Runs :
    \A n \in 1..Len(call[r].attempts) :
      LET a == call[r].attempts[n]
      IN /\ a.exit = "radius" => EndRadius(a) > LongerSide
         /\ (a.exit = "radius" /\ ~IsNaN(a.size)) =>
              EndRadius(a) - RadiusStep <= LongerSide
         /\ (a.exit = "placed" /\ ~IsNaN(a.size)) =>
              EndRadius(a) <= LongerSide

\* of two terms of equal count the first is placed and the second is
\* skipped by the radius break, and the call resolved to an image
WitnessSecondSkipped ==
  \E r \in Runs :
    /\ call[r].result = "blob"
    /\ Len(call[r].attempts) = 2
    /\ call[r].attempts[1].count = call[r].attempts[2].count
    /\ call[r].attempts[1].exit = "placed"
    /\ call[r].attempts[2].exit = "radius"
    /\ Len(call[r].placedWords) = 1

\* how many of the tokens are the word term
TokenCount(tokens, term) ==
  Cardinality({k \in 1..Len(tokens) : tokens[k] = term})

\* C20: every term returned by processText is lower-case, longer than one
\* character and no member of STOP_WORDS, and its count is the number of
\* tokens of the text equal to it: tokens of length <= 1 and stop words
\* are no term and add to no count.
TokenModeFiltering ==
  variant = "token" =>
    \A r \in Runs :
      Bind(call[r].words \o call[r].dropped, LAMBDA all :
        all # <<>> =>
          Bind(Tokenize(text), LAMBDA tokens :
            \A i \in 1..Len(all) :
              /\ toLowerCase(all[i].text) = all[i].text
              /\ Len(all[i].text) > 1
              /\ all[i].text \notin STOP_WORDS
              /\ all[i].count.v = TokenCount(tokens, all[i].text)))

\* a text with an upper-case letter, a stop word and a token of one
\* letter was aggregated to at least one term
WitnessFilteredTokens ==
  /\ variant = "token"
  /\ toLowerCase(text) # text
  /\ \E r \in Runs :
       /\ call[r].words # <<>>
       /\ Bind(Tokenize(text), LAMBDA tokens :
            /\ \E k \in 1..Len(tokens) : tokens[k] \in STOP_WORDS
            /\ \E k \in 1..Len(tokens) : Len(tokens[k]) <= 1)

\* the timer callback of call r is over or waits for canvas.toBlob
Settled(r) == page.stage[r] # "running"

\* C18: when the snapshot changed while a call made for an older snapshot
\* was in flight, the end of that call does not set imageUrl; and once
\* nothing is pending (no timer, no call in flight) an image that is shown
\* is the one generated from the latest snapshot.
StaleResultsDiscarded ==
  /\ [][\A r \in Runs :
          (page.stage[r] = "running" /\ page'.stage[r] = "done"
             /\ page.arg[r] # Snapshot)
            => page'.imageUrl = page.imageUrl]_vars
  /\ [](( /\ page.timers = {}
          /\ \A r \in Runs : Settled(r)
          /\ page.imageUrl # NoUrl )
          => page.imageUrl = ObjectUrl(Snapshot))

\* the pass of the loop in which the search of attempt a ended, counted
\* from one
Passes(a) == a.iterations + 1

\* floor(max(canvas.width, canvas.height) / radiusStep) + 2
RadiusExitBound == (LongerSide \div RadiusStep) + 2

\* C27: the iteration cap is never the reason a term is skipped: the search
\* of every unplaced term leaves the loop by the radius break, after at
\* most floor(max(width, height) / radiusStep) + 2 passes, which is below
\* maxIterations.
IterationCapNeverReached ==
  /\ RadiusExitBound < MaxIterations
  /\ \A r \in Runs :
       \A n \in 1..Len(call[r].attempts) :
         LET a == call[r].attempts[n]
         IN a.exit # "placed" =>
              /\ a.exit = "radius"
              /\ Passes(a) <= RadiusExitBound

\* call r appended at most one element to placedWords and left the
\* elements it had as they were
Appended(old, new) ==
  /\ Len(new) \in {Len(old), Len(old) + 1}
  /\ SubSeq(new, 1, Len(old)) = old

\* C21: during a layout pass placedWords only grows by appending; an
\* element, once appended, keeps its x, y, width, height and size while
\* later terms are searched, and none is removed.
PlacedAppendOnly ==
  [][\A r \in Runs : Appended(call[r].placedWords, call'[r].placedWords)]_vars

\* a term was searched and skipped, and another placed, after two terms
\* had been placed
WitnessPlacedThenSearched ==
  \E r \in Runs :
    /\ Len(call[r].placedWords) >= 3
    /\ \E n \in 1..Len(call[r].attempts) :
         /\ call[r].attempts[n].exit # "placed"
         /\ call[r].attempts[n].seen >= 2
         /\ n < Len(call[r].attempts)

\* the fillText calls of call r are, one for one and in order, its placed
\* terms, at their positions and in their colours
PaintedAsPlaced(r) ==
  /\ Len(call[r].painted) = Len(call[r].placedWords)
  /\ \A i \in 1..Len(call[r].painted) :
       /\ call[r].painted[i].text = call[r].placedWords[i].text
       /\ call[r].painted[i].x = call[r].placedWords[i].x
       /\ call[r].painted[i].y = call[r].placedWords[i].y
       /\ call[r].painted[i].color = call[r].placedWords[i].color
       /\ \E k \in 1..Len(call[r].words) :
            /\ call[r].words[k].text = call[r].painted[i].text
            /\ call[r].words[k].color = call[r].painted[i].color
  /\ \A i, j \in 1..Len(call[r].painted) :
       call[r].painted[i].text = call[r].painted[j].text => i = j
  /\ \A n \in 1..Len(call[r].attempts) :
       call[r].attempts[n].exit # "placed" =>
         \A i \in 1..Len(call[r].painted) :
           call[r].painted[i].text # call[r].attempts[n].text

\* C22: a term's text is drawn exactly once, at the step and at the
\* position at which it is appended to placedWords and in its assigned
\* colour; a skipped term is never drawn, and what was drawn is neither
\* drawn again nor taken back.
PaintedExactlyWhenPlaced ==
  /\ [](\A r \in Runs : PaintedAsPlaced(r))
  /\ [][\A r \in Runs :
          /\ Appended(call[r].painted, call'[r].painted)
          /\ Len(call'[r].painted) - Len(call[r].painted)
               = Len(call'[r].placedWords) - Len(call[r].placedWords)]_vars

\* a call drew two terms and skipped one
WitnessPaintedAndSkipped ==
  \E r \in Runs :
    /\ Len(call[r].painted) >= 2
    /\ \E n \in 1..Len(call[r].attempts) :
         call[r].attempts[n].exit # "placed"
    /\ call[r].pc = "resolved"

\* the calls the timer callbacks of the page have started
StartedCalls(p) == {r \in Runs : p.stage[r] # "none"}

EntriesNeverLost ==
  variant = "phrase" =>
    /\ \A k \in 1..Len(page.added) :
         \E i \in 1..Len(entries) : entries[i] = page.added[k]
    /\ page.entryCount = Len(entries)

\* the calls of onNewEntry made by interval callbacks
PollAnnounced ==
  {i \in 1..Len(client.announced) : client.announced[i].via = "poll"}

\* C23: an entry that is in the backend when subscribeToNewEntries is
\* called is never passed to onNewEntry by a poll, whatever the order of
\* the initial fetch and the polls and whether the initial fetch fails.
OldEntriesNotAnnounced ==
  \A i \in PollAnnounced :
    \A k \in 1..Len(client.existing) :
      client.announced[i].entry # client.existing[k]

LocalAnnounced(entry) ==
  {i \in 1..Len(client.announced) :
     /\ client.announced[i].via = "local"
     /\ client.announced[i].entry = entry}

\* C25: every saveEntry call appends the entry to localEntries and emits
\* one INSERT event, to the listeners subscribed at that moment, before
\* the request is made; it returns error: null whatever the request does,
\* and the entry stays in localEntries.
OptimisticSave ==
  \A k \in 1..Len(client.saves) :
    LET s == client.saves[k]
    IN /\ s.log = <<"push", "emit", "fetch">>
       /\ \E i \in 1..Len(client.localEntries) :
            client.localEntries[i] = s.entry
       /\ Cardinality(LocalAnnounced(s.entry)) = s.emitted
       /\ s.pc = "returned" => s.error = "null"

\* a save made while a listener was subscribed returned from its catch
\* clause
WitnessFailedSave ==
  \E k \in 1..Len(client.saves) :
    /\ client.saves[k].pc = "returned"
    /\ client.saves[k].data = "id"
    /\ client.saves[k].emitted = 1

\* C28: after the unsubscribe function was called onNewEntry is not
\* called again, also by a poll whose fetch was in flight then.
NoCallAfterUnsubscribe ==
  \A i \in 1..Len(client.announced) : ~client.announced[i].unsubscribed

\* C30: InputPage never has two saveEntry calls pending, whatever the user
\* does, and never calls saveEntry with a blank text.
SingleSubmission ==
  /\ form.pending <= 1
  /\ \A i \in 1..Len(form.submitted) : trim(form.submitted[i]) # <<>>

====
